---- MODULE Spec2Model ----
(***************************************************************************)
(* SentiGuard (RAVBLACK/StrawHats): the guardian-alert aggregator and the  *)
(* mood-history store of analyzer.py, driven by the alert checks of gui.py,*)
(* the keylogger, the voice recorder and the session-end handlers.         *)
(*                                                                         *)
(* Files are modelled by their content: keystrokes.txt is the sequence of  *)
(* its lines, alert_status.json the number it stores, alerts_log.json and  *)
(* mood_history.json the lists they store, each with an "exists" flag.     *)
(* Scores are integers in hundredths (-0.5 is -50).                        *)
(*                                                                         *)
(* The alert checks run on the GUI thread, one at a time; each is split at *)
(* the point where count_below_threshold has returned, because the         *)
(* keylogger and voice threads append to keystrokes.txt concurrently.      *)
(* The alert and history specifications use analyze_sentiment for the     *)
(* score it returns and take an append to keystrokes.txt as one step; the  *)
(* analyzer specification models the enhanced analysis and its             *)
(* concerning-analysis log, the append specification the writes of the     *)
(* three appending threads to the bytes of the file.                       *)
(***************************************************************************)
EXTENDS Integers, Sequences, FiniteSets, TLC

\* ---------------------------------------------------------------- constants
THRESHOLD == -50
ALERT_LIMIT == 5
\* get_current_alert_state shows "Armed" above this count.
ArmedAbove == 10
HISTORY_CAP == 10000
\* get_mood_statistics: the buckets of each period and the monthly step.
DailyWindow == 30
WeeklyWindow == 12
MonthlyWindow == 12
MonthStep == 30
\* log_concerning_analysis keeps the last 50 entries.
ConcerningCap == 50
\* AIConfig.MAX_DAILY_API_CALLS
MAX_DAILY_API_CALLS == 200
\* The calendar of the clock: day 0 is Monday 1 January 2024.
EpochYear == 2024
EpochWeekday == 0

\* ------------------------------------------------------------------- bounds
\* Longest keystroke log explored by the alert-only specification.
MaxLines == 12
\* Longest keystroke log explored by the full-session specification.
MaxSessionLines == 7
\* Longest keystroke log explored by the specification of every operation.
MaxPlainLines == 7
\* Lines of a log that may differ from the plain breaching line "sad".
MaxOdd == 1
\* Lines appended while an alert check is between its scan and its write.
MaxLate == 1
\* Entries mood_history.json may hold in the full-session specification.
MaxSessionHistory == 2
\* save_mood_to_history calls beyond the cap explored by SpecHistory.
MaxOverflow == 3
\* Clock ticks to a calendar day.
TicksPerDay == 2
\* Lines of the log and entries of the mood history in the specification of
\* scorer failures.
MaxFaultLines == 3
MaxFaultHistory == 6
\* Calls of analyze_sentiment in the specification of the concerning log.
MaxConcerningCalls == 2
\* The last clock tick of the AI companion specification.
MaxCompanionTicks == 2
\* Lines of the log and entries saved in the specification of get_day_analysis
\* on two threads.
MaxDayLines == 2
MaxDayHistory == 5
\* Lines of the log in the specification of the guardian dashboard.
MaxGuardianLines == 12
\* Lines of the log and entries of mood_history.json in the specification of
\* the reads of mood data.
MaxReadLines == 3
MaxReadHistory == 4
\* Lines of the log in the specification of session ends.
MaxEndLines == 7
\* Runs in a row of a session-end handler that are told apart.
MaxEndRuns == 3
\* Appends of each thread in the append specification.
MaxAppends == 1
\* Entries concerning_analysis.json may hold in the analyzer specification.
MaxConcerning == 2
\* The last calendar day the statistics specification takes as today.
StatsLastDay == 1095
\* Entries of the histories the statistics specification charts in full.
MaxStatsEntries == 2
\* Longest keystroke log explored by the privacy specification.
MaxPrivacyLines == 3
\* Entries mood_history.json may hold in the privacy specification.
MaxPrivacyHistory == 4
\* Longest keystroke log explored by the ingestion specification.
MaxIngestLines == 4
\* Entries mood_history.json may hold in the ingestion specification.
MaxIngestHistory == 8

\* -------------------------------------------------------------------- texts
\* The lines a user types or speaks: a breaching line, a breaching line typed
\* with surrounding blanks, a line scoring exactly THRESHOLD, a blank line.
Texts == {"sad", " die ", "meh", "  "}
\* The lines typed in the full-session specification; the line typed with
\* surrounding blanks is left to the alert-only specification.
SessionTexts == {"sad", "meh", "  "}
SpokenTexts == {"sad", "meh"}
PlainTexts == {"sad"}
\* The lines typed in the ingestion specification.
IngestTexts == {"sad", "meh", "  "}
HistoryScores == {-60, 40}

\* str.strip()
Strip(t) ==
  CASE t = " die " -> "die"
    [] t = "  " -> ""
    [] OTHER -> t

\* The adjusted compound the enhanced analyzer gives a non-blank text.
AdjustedCompound(t) ==
  CASE Strip(t) = "sad" -> -60
    [] Strip(t) = "die" -> -70
    [] Strip(t) = "meh" -> -50
    [] OTHER -> 0

\* analyze_sentiment(text): 0.0 for empty or whitespace-only text.
AnalyzeSentiment(text) ==
  IF text = "" \/ Strip(text) = "" THEN 0 ELSE AdjustedCompound(text)

VARIABLES
  log_exists, lines,                 \* keystrokes.txt
  status_exists, last_alert_line,    \* alert_status.json
  alerts_exists, alerts_log,         \* alerts_log.json, newest first
  history_exists, mood_history,      \* mood_history.json
  analysis_cache, last_file_size,    \* analyzer._analysis_cache, _last_file_size
  guardian_email,                    \* user_settings.json, "" when unset
  now,                               \* datetime.now()
  pc, result,                        \* GUI thread: place in an alert check, its `result`
  op,                                \* history: the operation that ran last
  last_check,                        \* history: what the last finished alert check did
  fired,                             \* history: line windows of the alerts fired since the last reset
  quiet,                             \* history: an alert fired and the log is as it scanned it
  late,                              \* history: lines appended since the scan of the running check
  last_good,                         \* history: the last reading taken from an existing log
  all_saved,                         \* history: every entry saved since the history was last cleared
  last_day,                          \* history: the last get_day_analysis call, while the log is as it read it
  stats,                             \* the list the last get_mood_statistics call returned
  sample,                            \* the text under analysis and its VADER compound
  detail,                            \* the result of the last analyze_context call
  concerning,                        \* concerning_analysis.json
  bytes,                             \* keystrokes.txt, character by character
  append_by,                         \* how the platform appends: "kernel" in one step, "seek" by seek and write
  wpc, wpos,                         \* each appending thread's position in its append and its file offset
  written,                           \* history: the lines whose append has completed, in order
  ended,                             \* history: the session-end handler that ran last and its runs in a row
  fault,                             \* history: the last call in which the scorer raised
  daily_api_calls, last_api_reset,   \* AICompanion: the Gemini calls counted today, the date of the count
  aipc,                              \* each chat worker thread's place in generate_response
  day_call                           \* each thread's place in get_day_analysis and its locals

logv == <<log_exists, lines>>
statusv == <<status_exists, last_alert_line>>
alertsv == <<alerts_exists, alerts_log>>
moodv == <<history_exists, mood_history, analysis_cache, last_file_size, all_saved>>
envv == <<guardian_email, now>>
guiv == <<pc, result>>
checkv == <<last_check, fired, quiet, late, last_good>>
appendv == <<bytes, append_by, wpc, wpos, written>>
aiv == <<daily_api_calls, last_api_reset, aipc>>
morev == <<fault, aiv, day_call>>
keptv == <<stats, sample, detail, concerning, appendv, morev>>
restv == <<keptv, ended>>
vars == <<logv, statusv, alertsv, moodv, envv, guiv, op, checkv, last_day, restv>>

NoResult == [count |-> 0, latest_line |-> 0, neg_lines |-> <<>>, start |-> 0,
             missing |-> FALSE]
NoCheck == [path |-> "none", start |-> 0, count |-> 0, latest_line |-> 0,
            notifier |-> "none", recorded |-> "none", advanced |-> FALSE,
            late |-> 0]
NoReading == [valid |-> FALSE, count |-> 0, latest_line |-> 0]
NoDay == [valid |-> FALSE, result |-> <<>>, scored |-> 0, saved |-> 0]
NoSample == [text |-> "", compound |-> 0]
NoEnd == [handler |-> "none", runs |-> 0]
NoFault == [call |-> "none", propagated |-> FALSE, escaped |-> FALSE,
            done |-> 0, due |-> 0]

\* The threads that append to keystrokes.txt: the keyboard listener, the
\* speech recognition thread and the audio emotion thread.
Writers == {"keylogger", "transcription", "emotion"}

\* An append in one step by the system (O_APPEND), or by a seek to the end
\* followed by a write.
AppendModes == {"kernel", "seek"}

\* No append under way and an empty file.
InitAppend ==
  /\ bytes = <<>>
  /\ append_by = "kernel"
  /\ wpc = [w \in Writers |-> "idle"]
  /\ wpos = [w \in Writers |-> 0]
  /\ written = <<>>
NoDetail == [called |-> "none"]
NoStats == [period |-> "none", fallback |-> FALSE, data |-> <<>>]

\* ------------------------------------------------------------ alert status
\* get_alert_status()["last_alert_line"]
GetAlertStatus == IF status_exists THEN last_alert_line ELSE 0

\* set_alert_status storing the index of the last line instead of the count.
SetAlertStatusOffByOne(line_num) ==
  /\ status_exists' = TRUE
  /\ last_alert_line' = line_num - 1

\* set_alert_status storing the length of the log as it is when it writes.
SetAlertStatusReread(line_num) ==
  /\ status_exists' = TRUE
  /\ last_alert_line' = Len(lines)

\* set_alert_status leaving the stored line as it is.
SetAlertStatusKeep(line_num) ==
  /\ status_exists' = TRUE
  /\ last_alert_line' = GetAlertStatus

\* set_alert_status(line_num)
SetAlertStatus(line_num) ==
  /\ status_exists' = TRUE
  /\ last_alert_line' = line_num

\* reset_alert_status leaving the stored line as it is.
ResetAlertStatusKeep ==
  /\ status_exists' = status_exists
  /\ last_alert_line' = last_alert_line

\* reset_alert_status(): rewrites the file only when it exists.
ResetAlertStatus ==
  /\ status_exists' = status_exists
  /\ last_alert_line' = IF status_exists THEN 0 ELSE last_alert_line

\* ---------------------------------------------------- count_below_threshold
\* The loop body's test with <= for <.
IsBreachInclusive(line) == line # "" /\ AnalyzeSentiment(line) <= THRESHOLD

\* The loop body's test on a stripped line.
IsBreach(line) == line # "" /\ AnalyzeSentiment(line) < THRESHOLD

\* The stripped breaching lines of a window of the log, in order.
NegLines(window) ==
  SelectSeq([i \in 1..Len(window) |-> Strip(window[i])], IsBreach)

\* lines[start:]
Slice(lns, start) == SubSeq(lns, start + 1, Len(lns))

\* count_below_threshold scanning from the first line whatever the status.
CountBelowThresholdFromZero(return_lines) ==
  IF ~log_exists
    THEN [count |-> 0, latest_line |-> 0, neg_lines |-> <<>>, start |-> 0,
          missing |-> TRUE]
    ELSE LET neg == NegLines(lines)
         IN  [count |-> Len(neg), latest_line |-> Len(lines),
              neg_lines |-> IF return_lines THEN neg ELSE <<>>,
              start |-> 0, missing |-> FALSE]

\* count_below_threshold answering a missing log with the last reading.
CountBelowThresholdLastKnown(return_lines) ==
  IF ~log_exists
    THEN [count |-> last_good.count, latest_line |-> last_good.latest_line,
          neg_lines |-> <<>>, start |-> 0, missing |-> TRUE]
    ELSE LET start == GetAlertStatus
             neg == NegLines(Slice(lines, start))
         IN  [count |-> Len(neg), latest_line |-> Len(lines),
              neg_lines |-> IF return_lines THEN neg ELSE <<>>,
              start |-> start, missing |-> FALSE]

\* count_below_threshold(return_lines)
CountBelowThreshold(return_lines) ==
  IF ~log_exists
    THEN [count |-> 0, latest_line |-> 0, neg_lines |-> <<>>, start |-> 0,
          missing |-> TRUE]
    ELSE LET start == GetAlertStatus
             neg == NegLines(Slice(lines, start))
         IN  [count |-> Len(neg), latest_line |-> Len(lines),
              neg_lines |-> IF return_lines THEN neg ELSE <<>>,
              start |-> start, missing |-> FALSE]

\* The history of readings: a reading from an existing log replaces the last.
Remember(r) ==
  IF r.missing THEN last_good
  ELSE [valid |-> TRUE, count |-> r.count, latest_line |-> r.latest_line]

\* ------------------------------------------------------------------ appends
OddCount(lns) == Cardinality({i \in DOMAIN lns : lns[i] # "sad"})

\* A line written by open(..., "a"): the file is created when missing.
AppendLine(t, max) ==
  /\ Len(lines) < max
  /\ t = "sad" \/ OddCount(lines) < MaxOdd
  /\ pc = "idle" \/ late < MaxLate
  /\ log_exists' = TRUE
  /\ lines' = Append(lines, t)
  /\ quiet' = FALSE
  /\ late' = IF pc = "idle" THEN 0 ELSE late + 1
  /\ op' = "append"
  /\ last_check' = NoCheck
  /\ UNCHANGED <<statusv, alertsv, moodv, envv, guiv, fired, last_good>>
  /\ last_day' = NoDay
  /\ UNCHANGED restv

\* keylogger.on_press(Key.enter) with the typed text t in the buffer.
OnPress(t, max) == AppendLine(t, max)

\* VoiceRecorder._analyze_and_save(text), text.strip() non-empty.
AnalyzeAndSave(t, max) == AppendLine(t, max)

\* -------------------------------------------------------------- check_and_alert
NotifierOutcomes == {"ok", "false", "raise"}

\* check_and_alert up to the return of count_below_threshold; without a
\* guardian email it returns before counting.
CheckAndAlertBegin ==
  /\ pc = "idle"
  /\ IF guardian_email = ""
       THEN /\ UNCHANGED <<guiv, last_good>>
            /\ last_check' = [NoCheck EXCEPT !.path = "alert_skipped",
                                              !.start = GetAlertStatus]
            /\ op' = "check_skipped"
       ELSE /\ result' = CountBelowThreshold(FALSE)
            /\ pc' = "alert_counted"
            /\ last_good' = Remember(CountBelowThreshold(FALSE))
            /\ last_check' = NoCheck
            /\ op' = "count"
  /\ late' = 0
  /\ UNCHANGED <<logv, statusv, alertsv, moodv, envv, fired, quiet>>
  /\ UNCHANGED <<last_day, restv>>

\* The rest of check_and_alert: send_alert_email, then set_alert_status; an
\* error raised by send_alert_email skips set_alert_status.
CheckAndAlertFinish ==
  /\ pc = "alert_counted"
  /\ IF result.count > ALERT_LIMIT
       THEN \E outcome \in NotifierOutcomes :
              /\ IF outcome = "raise"
                   THEN UNCHANGED <<statusv, fired, quiet>>
                   ELSE /\ SetAlertStatus(result.latest_line)
                        /\ fired' = Append(fired, [start |-> result.start,
                                                   latest_line |-> result.latest_line])
                        /\ quiet' = (late = 0)
              /\ last_check' = [path |-> "alert", start |-> result.start,
                                count |-> result.count,
                                latest_line |-> result.latest_line,
                                notifier |-> outcome, recorded |-> "none",
                                advanced |-> outcome # "raise", late |-> late]
              /\ op' = IF outcome = "raise" THEN "check_error" ELSE "fire"
       ELSE /\ UNCHANGED <<statusv, fired, quiet>>
            /\ last_check' = [NoCheck EXCEPT !.path = "alert",
                                              !.start = result.start,
                                              !.count = result.count,
                                              !.latest_line = result.latest_line,
                                              !.late = late]
            /\ op' = "no_fire"
  /\ pc' = "idle"
  /\ result' = NoResult
  /\ late' = 0
  /\ UNCHANGED <<logv, alertsv, moodv, envv, last_good>>
  /\ UNCHANGED <<last_day, restv>>

\* ------------------------------------------------- check_and_add_guardian_alert
\* check_and_add_guardian_alert up to the return of count_below_threshold.
GuardianCheckBegin ==
  /\ pc = "idle"
  /\ result' = CountBelowThreshold(TRUE)
  /\ pc' = "guardian_counted"
  /\ late' = 0
  /\ last_good' = Remember(CountBelowThreshold(TRUE))
  /\ last_check' = NoCheck
  /\ op' = "count"
  /\ UNCHANGED <<logv, statusv, alertsv, moodv, envv, fired, quiet>>
  /\ UNCHANGED <<last_day, restv>>

\* The alert_record it builds.
AlertRecord(count, neg_lines) ==
  [date |-> now, negative_count |-> count, status |-> "Sent",
   reason_lines |-> neg_lines]

\* The rest of check_and_add_guardian_alert: the record is put first in
\* alerts_log.json, then set_alert_status; no notifier is called.
GuardianCheckFinish ==
  /\ pc = "guardian_counted"
  /\ IF result.count > ALERT_LIMIT
       THEN /\ alerts_log' = <<AlertRecord(result.count, result.neg_lines)>>
                              \o (IF alerts_exists THEN alerts_log ELSE <<>>)
            /\ alerts_exists' = TRUE
            /\ SetAlertStatus(result.latest_line)
            /\ fired' = Append(fired, [start |-> result.start,
                                       latest_line |-> result.latest_line])
            /\ quiet' = (late = 0)
            /\ last_check' = [path |-> "guardian", start |-> result.start,
                              count |-> result.count,
                              latest_line |-> result.latest_line,
                              notifier |-> "none", recorded |-> "Sent",
                              advanced |-> TRUE, late |-> late]
            /\ op' = "fire"
       ELSE /\ UNCHANGED <<alertsv, statusv, fired, quiet>>
            /\ last_check' = [NoCheck EXCEPT !.path = "guardian",
                                              !.start = result.start,
                                              !.count = result.count,
                                              !.latest_line = result.latest_line,
                                              !.late = late]
            /\ op' = "no_fire"
  /\ pc' = "idle"
  /\ result' = NoResult
  /\ late' = 0
  /\ UNCHANGED <<logv, moodv, envv, last_good>>
  /\ UNCHANGED <<last_day, restv>>

\* get_current_alert_state() of the guardian dashboard: a second
\* count_below_threshold, "Armed" above ArmedAbove breaching lines.
GetCurrentAlertState ==
  IF CountBelowThreshold(TRUE).count > ArmedAbove THEN "Armed" ELSE "Waiting"

\* show_guardian after its check_and_add_guardian_alert has returned: the
\* dashboard computes the state it shows.
ShowGuardianState ==
  /\ pc = "idle"
  /\ op' = IF GetCurrentAlertState = "Armed" THEN "dashboard_armed"
                                             ELSE "dashboard_waiting"
  /\ UNCHANGED <<logv, statusv, alertsv, moodv, envv, guiv, checkv>>
  /\ UNCHANGED <<last_day, restv>>

\* ------------------------------------------------------------ mood history
\* save_mood_to_history keeping the first HISTORY_CAP entries.
SaveMoodToHistoryKeepFirst(exists, stored, score) ==
  LET history == (IF exists THEN stored ELSE <<>>)
                   \o <<[timestamp |-> now, score |-> score]>>
  IN  IF Len(history) > HISTORY_CAP
        THEN SubSeq(history, 1, HISTORY_CAP)
        ELSE history

\* save_mood_to_history(score) on the stored list: append, keep the last
\* HISTORY_CAP entries.
SaveMoodToHistory(exists, stored, score) ==
  LET history == (IF exists THEN stored ELSE <<>>)
                   \o <<[timestamp |-> now, score |-> score]>>
  IN  IF Len(history) > HISTORY_CAP
        THEN SubSeq(history, Len(history) - HISTORY_CAP + 1, Len(history))
        ELSE history

\* The calls save_mood_to_history(s) for the scores s in order.
RECURSIVE SaveAll(_, _, _)
SaveAll(exists, stored, scores) ==
  IF scores = <<>> THEN (IF exists THEN stored ELSE <<>>)
  ELSE SaveAll(TRUE, SaveMoodToHistory(exists, stored, Head(scores)), Tail(scores))

\* One call of save_mood_to_history, a clock tick later than the one before.
SaveMoodCall(score) ==
  /\ pc = "idle"
  /\ now < HISTORY_CAP + MaxOverflow
  /\ mood_history' = SaveMoodToHistory(history_exists, mood_history, score)
  /\ history_exists' = TRUE
  /\ all_saved' = Append(all_saved, [timestamp |-> now, score |-> score])
  /\ now' = now + 1
  /\ op' = "save_mood"
  /\ last_check' = NoCheck
  /\ UNCHANGED <<logv, statusv, alertsv, analysis_cache, last_file_size,
                 guardian_email, guiv, fired, quiet, late, last_good>>
  /\ UNCHANGED <<last_day, restv>>

\* clear_mood_history(): rewrites the file as [] when it exists.
ClearMoodHistory ==
  /\ pc = "idle"
  /\ history_exists' = history_exists
  /\ mood_history' = <<>>
  /\ all_saved' = <<>>
  /\ op' = "clear_mood_history"
  /\ last_check' = NoCheck
  /\ UNCHANGED <<logv, statusv, alertsv, analysis_cache, last_file_size,
                 envv, guiv, fired, quiet, late, last_good>>
  /\ UNCHANGED <<last_day, restv>>

\* ------------------------------------------------------------- day analysis
\* os.path.getsize(KEYSTROKE_FILE): every line with its newline.
RECURSIVE FileSize(_)
FileSize(lns) ==
  IF lns = <<>> THEN 0 ELSE Len(Head(lns)) + 1 + FileSize(Tail(lns))

IsNonBlank(line) == line # ""

\* The scores of the non-blank lines of lns, in order.
ScoresOf(lns) ==
  LET kept == SelectSeq([i \in 1..Len(lns) |-> Strip(lns[i])], IsNonBlank)
  IN  [i \in 1..Len(kept) |-> AnalyzeSentiment(kept[i])]

Stamped(scores) == [i \in 1..Len(scores) |-> [timestamp |-> now, score |-> scores[i]]]

\* The lines get_day_analysis scores: those past len(_analysis_cache) when
\* the cache is filled and the file grew, else all of them.
NewScores ==
  IF analysis_cache # <<>> /\ FileSize(lines) > last_file_size
    THEN ScoresOf(Slice(lines, Len(analysis_cache)))
    ELSE ScoresOf(lines)

\* The scores of a list of (timestamp, score) entries.
ScoreList(entries) == [i \in 1..Len(entries) |-> entries[i].score]

\* get_day_analysis scoring every line on every call, whatever the cache.
DayAnalysisUncached(max) ==
  /\ pc = "idle"
  /\ IF ~log_exists
       THEN /\ UNCHANGED moodv
            /\ last_day' = [valid |-> TRUE, result |-> <<>>, scored |-> 0,
                            saved |-> 0]
       ELSE /\ Len(mood_history) + Len(ScoresOf(lines)) <= max
            /\ analysis_cache' = Stamped(ScoresOf(lines))
            /\ last_file_size' = FileSize(lines)
            /\ mood_history' = SaveAll(history_exists, mood_history, ScoresOf(lines))
            /\ history_exists' = (history_exists \/ ScoresOf(lines) # <<>>)
            /\ all_saved' = all_saved \o Stamped(ScoresOf(lines))
            /\ last_day' = [valid |-> TRUE, result |-> ScoresOf(lines),
                            scored |-> Len(ScoresOf(lines)),
                            saved |-> Len(ScoresOf(lines))]
  /\ op' = "get_day_analysis"
  /\ last_check' = NoCheck
  /\ UNCHANGED <<logv, statusv, alertsv, envv, guiv, fired, quiet, late, last_good>>
  /\ UNCHANGED restv

\* The body of get_day_analysis(), on a mood history that holds at most max
\* entries: the cache, the file size it remembers and the history it feeds.
DayAnalysisBody(max) ==
  IF ~log_exists
    THEN /\ UNCHANGED moodv
         /\ last_day' = [valid |-> TRUE, result |-> <<>>, scored |-> 0,
                         saved |-> 0]
    ELSE IF FileSize(lines) = last_file_size /\ analysis_cache # <<>>
    THEN /\ UNCHANGED moodv
         /\ last_day' = [valid |-> TRUE, result |-> ScoreList(analysis_cache),
                         scored |-> 0, saved |-> 0]
    ELSE /\ Len(mood_history) + Len(NewScores) <= max
         /\ analysis_cache' =
              (IF analysis_cache # <<>> /\ FileSize(lines) > last_file_size
                 THEN analysis_cache ELSE <<>>) \o Stamped(NewScores)
         /\ last_file_size' = FileSize(lines)
         /\ mood_history' = SaveAll(history_exists, mood_history, NewScores)
         /\ history_exists' = (history_exists \/ NewScores # <<>>)
         /\ all_saved' = all_saved \o Stamped(NewScores)
         /\ last_day' = [valid |-> TRUE,
                         result |-> ScoreList(analysis_cache'),
                         scored |-> Len(NewScores), saved |-> Len(NewScores)]

\* The list get_day_analysis() returns.
DayAnalysisResult ==
  IF ~log_exists THEN <<>>
  ELSE IF FileSize(lines) = last_file_size /\ analysis_cache # <<>>
    THEN analysis_cache
    ELSE analysis_cache'

\* get_day_analysis()
DayAnalysis(max) ==
  /\ pc = "idle"
  /\ DayAnalysisBody(max)
  /\ op' = "get_day_analysis"
  /\ last_check' = NoCheck
  /\ UNCHANGED <<logv, statusv, alertsv, envv, guiv, fired, quiet, late, last_good>>
  /\ UNCHANGED restv

\* get_day_analysis() in the specification of every operation.
GetDayAnalysis == DayAnalysis(MaxSessionHistory)

\* get_latest_mood(): the score of the last line, 0.0 without one.
GetLatestMood ==
  IF ~log_exists \/ lines = <<>> THEN 0
  ELSE AnalyzeSentiment(Strip(lines[Len(lines)]))

\* The GUI reading get_latest_mood(): nothing is written.
ReadLatestMood ==
  /\ pc = "idle"
  /\ op' = IF GetLatestMood < THRESHOLD THEN "latest_mood_low" ELSE "latest_mood"
  /\ last_check' = NoCheck
  /\ UNCHANGED <<logv, statusv, alertsv, moodv, envv, guiv, fired, quiet, late, last_good>>
  /\ UNCHANGED <<last_day, restv>>

\* ---------------------------------------------------------- mood statistics
\* datetime: the clock `now` counts ticks, TicksPerDay to a calendar day, and
\* day 0 is Monday 1 January of EpochYear.
IsLeap(y) == (y % 4 = 0 /\ y % 100 # 0) \/ y % 400 = 0

DaysInYear(y) == IF IsLeap(y) THEN 366 ELSE 365

DaysInMonth(y, m) ==
  IF m = 2 THEN (IF IsLeap(y) THEN 29 ELSE 28)
  ELSE IF m \in {4, 6, 9, 11} THEN 30 ELSE 31

\* The year of day number d counted from 1 January of year y, and the day's
\* place in that year (0 for 1 January).
RECURSIVE YearFrom(_, _)
YearFrom(y, d) ==
  IF d < 0 THEN YearFrom(y - 1, d + DaysInYear(y - 1))
  ELSE IF d >= DaysInYear(y) THEN YearFrom(y + 1, d - DaysInYear(y))
  ELSE [year |-> y, rest |-> d]

RECURSIVE MonthFrom(_, _, _)
MonthFrom(y, m, d) ==
  IF d >= DaysInMonth(y, m) THEN MonthFrom(y, m + 1, d - DaysInMonth(y, m))
  ELSE [year |-> y, month |-> m, day |-> d + 1]

\* The calendar date of day number d.
DateOf(d) == LET yr == YearFrom(EpochYear, d) IN MonthFrom(yr.year, 1, yr.rest)

RECURSIVE DaysBeforeYear(_)
DaysBeforeYear(y) ==
  IF y = EpochYear THEN 0
  ELSE IF y > EpochYear THEN DaysBeforeYear(y - 1) + DaysInYear(y - 1)
  ELSE DaysBeforeYear(y + 1) - DaysInYear(y)

RECURSIVE DaysBeforeMonth(_, _)
DaysBeforeMonth(y, m) ==
  IF m = 1 THEN 0 ELSE DaysBeforeMonth(y, m - 1) + DaysInMonth(y, m - 1)

\* The day number of the calendar date y-m-day.
Ordinal(y, m, day) == DaysBeforeYear(y) + DaysBeforeMonth(y, m) + day - 1

\* datetime.weekday(): 0 for Monday.
Weekday(d) == (d + EpochWeekday) % 7

\* The calendar day of a timestamp (floor, also before day 0).
DayOf(t) == IF t >= 0 THEN t \div TicksPerDay
            ELSE -((-t + TicksPerDay - 1) \div TicksPerDay)

RECURSIVE Gcd(_, _)
Gcd(a, b) == IF b = 0 THEN a ELSE Gcd(b, a % b)

Abs(n) == IF n < 0 THEN -n ELSE n

RECURSIVE SumSeq(_)
SumSeq(q) == IF q = <<>> THEN 0 ELSE Head(q) + SumSeq(Tail(q))

\* A score average as an exact fraction of hundredths; 0.0 is 0/1.
Zero == [num |-> 0, den |-> 1]

\* statistics.mean(scores) for a non-empty list.
Mean(scores) ==
  LET g == Gcd(Abs(SumSeq(scores)), Len(scores))
  IN  [num |-> SumSeq(scores) \div g, den |-> Len(scores) \div g]

\* day_scores taking the end of the period as part of it.
ScoresInClosed(history, from, to) ==
  LET InPeriod(e) == from <= e.timestamp /\ e.timestamp <= to
  IN  ScoreList(SelectSeq(history, InPeriod))

\* The scores of the entries of history stamped in [from, to), in order.
ScoresIn(history, from, to) ==
  LET InPeriod(e) == from <= e.timestamp /\ e.timestamp < to
  IN  ScoreList(SelectSeq(history, InPeriod))

\* One element of stats_data: the period [from, to) in ticks.
Bucket(history, label, from, to) ==
  LET scores == ScoresIn(history, from, to)
  IN  [label |-> label,
       value |-> IF scores = <<>> THEN Zero ELSE Mean(scores),
       count |-> Len(scores),
       from |-> from, to |-> to]

\* period == 'daily': the calendar day i days before today.
DailyBucket(history, t, i) ==
  LET day_start == DayOf(t) - i
  IN  Bucket(history, DateOf(day_start),
             day_start * TicksPerDay, (day_start + 1) * TicksPerDay)

\* period == 'weekly': the Monday-to-Sunday week of the day i weeks ago.
WeeklyBucket(history, t, i) ==
  LET day == DayOf(t) - 7 * i
      week_start == day - Weekday(day)
  IN  Bucket(history, DateOf(week_start),
             week_start * TicksPerDay, (week_start + 7) * TicksPerDay)

\* period == 'monthly': the month of the day MonthStep * i days before the
\* first of this month.
MonthlyBucket(history, t, i) ==
  LET today == DateOf(DayOf(t))
      stepped == DateOf(Ordinal(today.year, today.month, 1) - MonthStep * i)
      month_start == Ordinal(stepped.year, stepped.month, 1)
      next_month == month_start + DaysInMonth(stepped.year, stepped.month)
  IN  Bucket(history, [year |-> stepped.year, month |-> stepped.month],
             month_start * TicksPerDay, next_month * TicksPerDay)

Periods == {"daily", "weekly", "monthly"}

\* list(reversed(stats_data)): bucket i = window - 1 comes first.
StatsData(history, t, period) ==
  IF period = "daily"
    THEN [j \in 1..DailyWindow |-> DailyBucket(history, t, DailyWindow - j)]
  ELSE IF period = "weekly"
    THEN [j \in 1..WeeklyWindow |-> WeeklyBucket(history, t, WeeklyWindow - j)]
  ELSE IF period = "monthly"
    THEN [j \in 1..MonthlyWindow |-> MonthlyBucket(history, t, MonthlyWindow - j)]
  ELSE <<>>

\* get_mood_history()
GetMoodHistory == IF history_exists THEN mood_history ELSE <<>>

\* get_mood_statistics(period): the persistent history, or the result of
\* get_day_analysis() when that is empty.
GetMoodStatistics(period, max) ==
  /\ pc = "idle"
  /\ IF GetMoodHistory # <<>>
       THEN /\ stats' = [period |-> period, fallback |-> FALSE,
                         data |-> StatsData(GetMoodHistory, now, period)]
            /\ UNCHANGED <<moodv, last_day>>
       ELSE /\ DayAnalysisBody(max)
            /\ stats' = [period |-> period, fallback |-> TRUE,
                         data |-> IF DayAnalysisResult = <<>> THEN <<>>
                                  ELSE StatsData(DayAnalysisResult, now, period)]
  /\ op' = "get_mood_statistics"
  /\ last_check' = NoCheck
  /\ UNCHANGED <<logv, statusv, alertsv, envv, guiv, fired, quiet, late, last_good>>
  /\ UNCHANGED <<sample, detail, concerning, appendv, ended, morev>>

\* The dictionary get_mood_summary returns for the scores of a day analysis.
MoodSummary(scores) ==
  IF scores = <<>>
    THEN [total_entries |-> 0, avg_score |-> Zero, positive_count |-> 0,
          negative_count |-> 0, neutral_count |-> 0]
    ELSE LET positive == Cardinality({i \in 1..Len(scores) : scores[i] > 10})
             negative == Cardinality({i \in 1..Len(scores) : scores[i] < -10})
         IN  [total_entries |-> Len(scores), avg_score |-> Mean(scores),
              positive_count |-> positive, negative_count |-> negative,
              neutral_count |-> Len(scores) - positive - negative]

\* get_mood_summary(): the summary of what get_day_analysis() returns.
GetMoodSummary(max) ==
  /\ pc = "idle"
  /\ DayAnalysisBody(max)
  /\ stats' = [period |-> "summary", fallback |-> TRUE,
               data |-> <<MoodSummary(ScoreList(DayAnalysisResult))>>]
  /\ op' = "get_mood_summary"
  /\ last_check' = NoCheck
  /\ UNCHANGED <<logv, statusv, alertsv, envv, guiv, fired, quiet, late, last_good>>
  /\ UNCHANGED <<sample, detail, concerning, appendv, ended, morev>>

\* ---------------------------------------------------------------- analyzer
\* The texts analysed: empty, blank, plain, and texts chosen for the patterns
\* of EnhancedSentimentAnalyzer they match.
AnalyzerTexts ==
  {"", "  ", "sad", "i feel worthless", "i want to die",
   "I am so happy right now I can kill someone",
   "so happy and just great but ok", "so happy but ok",
   "really great, it was awful",
   "so happy and thrilled, a wonderful day to kill time",
   "so happy and thrilled that i feel worthless and could die",
   "i hate everything", "i love this beautiful sunny day",
   "really very bad awful terrible horrible"}

\* The VADER compound of a text, in hundredths: an input of the analysis.
Compounds == {-90, -20, -10, 0, 10, 20, 50, 100}

\* text.lower()
Lower(t) ==
  IF t = "I am so happy right now I can kill someone"
    THEN "i am so happy right now i can kill someone"
    ELSE t

\* re.search and the word tests on a lowered text: whether a pattern of
\* sarcasm_patterns matches, whether a positive and a negative word occur,
\* whether a pattern of negative_contexts matches, how many patterns of
\* potential_sarcasm match, whether when/while/but occurs, how many patterns of
\* mental_health_flags and of concerning_combinations match, and whether a
\* pattern of concerning_phrases matches.
Matches(t) ==
  CASE t = "sad" ->
         [sarcasm_pattern |-> FALSE, has_positive |-> FALSE, has_negative |-> FALSE,
          negative_context |-> FALSE, potential |-> 0, contrast |-> FALSE,
          flags |-> 0, combinations |-> 0, phrase |-> FALSE]
    [] t = "i feel worthless" ->
         [sarcasm_pattern |-> FALSE, has_positive |-> FALSE, has_negative |-> FALSE,
          negative_context |-> FALSE, potential |-> 0, contrast |-> FALSE,
          flags |-> 1, combinations |-> 0, phrase |-> FALSE]
    [] t = "i want to die" ->
         [sarcasm_pattern |-> FALSE, has_positive |-> FALSE, has_negative |-> TRUE,
          negative_context |-> TRUE, potential |-> 0, contrast |-> FALSE,
          flags |-> 1, combinations |-> 0, phrase |-> TRUE]
    [] t = "i am so happy right now i can kill someone" ->
         [sarcasm_pattern |-> TRUE, has_positive |-> TRUE, has_negative |-> TRUE,
          negative_context |-> TRUE, potential |-> 1, contrast |-> FALSE,
          flags |-> 0, combinations |-> 1, phrase |-> TRUE]
    [] t = "so happy and just great but ok" ->
         [sarcasm_pattern |-> FALSE, has_positive |-> TRUE, has_negative |-> FALSE,
          negative_context |-> FALSE, potential |-> 2, contrast |-> TRUE,
          flags |-> 0, combinations |-> 0, phrase |-> FALSE]
    [] t = "so happy but ok" ->
         [sarcasm_pattern |-> FALSE, has_positive |-> TRUE, has_negative |-> FALSE,
          negative_context |-> FALSE, potential |-> 1, contrast |-> TRUE,
          flags |-> 0, combinations |-> 0, phrase |-> FALSE]
    [] t = "really great, it was awful" ->
         [sarcasm_pattern |-> FALSE, has_positive |-> TRUE, has_negative |-> TRUE,
          negative_context |-> FALSE, potential |-> 1, contrast |-> FALSE,
          flags |-> 0, combinations |-> 0, phrase |-> FALSE]
    [] t = "so happy and thrilled, a wonderful day to kill time" ->
         [sarcasm_pattern |-> TRUE, has_positive |-> TRUE, has_negative |-> TRUE,
          negative_context |-> FALSE, potential |-> 1, contrast |-> FALSE,
          flags |-> 0, combinations |-> 1, phrase |-> FALSE]
    [] t = "so happy and thrilled that i feel worthless and could die" ->
         [sarcasm_pattern |-> TRUE, has_positive |-> TRUE, has_negative |-> TRUE,
          negative_context |-> FALSE, potential |-> 1, contrast |-> FALSE,
          flags |-> 1, combinations |-> 0, phrase |-> FALSE]
    [] t = "really very bad awful terrible horrible" ->
         [sarcasm_pattern |-> TRUE, has_positive |-> FALSE, has_negative |-> TRUE,
          negative_context |-> FALSE, potential |-> 0, contrast |-> FALSE,
          flags |-> 0, combinations |-> 0, phrase |-> FALSE]
    [] t = "i hate everything" ->
         [sarcasm_pattern |-> FALSE, has_positive |-> FALSE, has_negative |-> TRUE,
          negative_context |-> TRUE, potential |-> 0, contrast |-> FALSE,
          flags |-> 0, combinations |-> 0, phrase |-> TRUE]
    [] t = "i love this beautiful sunny day" ->
         [sarcasm_pattern |-> FALSE, has_positive |-> TRUE, has_negative |-> FALSE,
          negative_context |-> FALSE, potential |-> 0, contrast |-> FALSE,
          flags |-> 0, combinations |-> 0, phrase |-> FALSE]
    [] OTHER ->
         [sarcasm_pattern |-> FALSE, has_positive |-> FALSE, has_negative |-> FALSE,
          negative_context |-> FALSE, potential |-> 0, contrast |-> FALSE,
          flags |-> 0, combinations |-> 0, phrase |-> FALSE]

Min(a, b) == IF a < b THEN a ELSE b

\* detect_sarcasm(text): sums are in hundredths.
DetectSarcasm(text) ==
  LET m == Matches(Lower(text))
      sarcasm_score ==
        (IF m.sarcasm_pattern THEN 70 ELSE 0)
        + (IF m.has_positive /\ m.has_negative THEN 50 ELSE 0)
        + (IF m.negative_context THEN 60 ELSE 0)
        + (IF m.has_negative \/ m.contrast THEN 40 * m.potential ELSE 0)
  IN  [is_sarcastic |-> sarcasm_score > 50,
       confidence |-> Min(sarcasm_score, 100),
       sum |-> sarcasm_score]

\* detect_mental_health_concerns with 0.4 for 0.8 per matching flag.
DetectMentalHealthConcernsWeak(text) ==
  LET m == Matches(Lower(text))
      concern_score == 40 * m.flags + 60 * m.combinations
  IN  [concern |-> concern_score > 50, confidence |-> Min(concern_score, 100)]

\* detect_mental_health_concerns(text)
DetectMentalHealthConcerns(text) ==
  LET m == Matches(Lower(text))
      concern_score == 80 * m.flags + 60 * m.combinations
  IN  [concern |-> concern_score > 50, confidence |-> Min(concern_score, 100)]

\* The product without the factor: the score is left undamped.
TimesUndamped(score, tenths) == score

\* score * tenths / 10 on a compound that is a multiple of 0.1.
Times(score, tenths) == (score * tenths) \div 10

\* _categorize_sentiment(score)
CategorizeSentiment(score) ==
  IF score >= 50 THEN "very_positive"
  ELSE IF score >= 10 THEN "positive"
  ELSE IF score >= -10 THEN "neutral"
  ELSE IF score >= -50 THEN "negative"
  ELSE "very_negative"

\* The blank test without the strip: whitespace-only text is analysed.
IsBlankEmptyOnly(text) == text = ""

\* Whether the text is empty or whitespace only: not text or not text.strip().
IsBlank(text) == text = "" \/ Strip(text) = ""

\* analyze_context(text), given the VADER compound of the text.
AnalyzeContext(text, compound) ==
  IF IsBlank(text)
    THEN [original_compound |-> 0, adjusted_compound |-> 0,
          is_sarcastic |-> FALSE, sarcasm_confidence |-> 0,
          mental_health_concern |-> FALSE, concern_confidence |-> 0,
          sentiment_category |-> "neutral", confidence |-> 0,
          needs_attention |-> FALSE]
    ELSE
      LET sarcasm == DetectSarcasm(text)
          concern == DetectMentalHealthConcerns(text)
          after_sarcasm ==
            IF sarcasm.is_sarcastic
              THEN (IF compound > 10 THEN -Times(Abs(compound), 7)
                    ELSE IF compound < -10 THEN Times(compound, 5)
                    ELSE compound)
              ELSE compound
          after_concern ==
            IF concern.concern THEN Min(after_sarcasm, -70) ELSE after_sarcasm
          adjusted_score ==
            IF Matches(Lower(text)).phrase THEN Min(after_concern, -60)
            ELSE after_concern
      IN  [original_compound |-> compound, adjusted_compound |-> adjusted_score,
           is_sarcastic |-> sarcasm.is_sarcastic,
           sarcasm_confidence |-> sarcasm.confidence,
           mental_health_concern |-> concern.concern,
           concern_confidence |-> concern.confidence,
           sentiment_category |-> CategorizeSentiment(adjusted_score),
           confidence |-> Abs(adjusted_score),
           needs_attention |->
             (adjusted_score < -40 \/ sarcasm.is_sarcastic \/ concern.concern
                \/ concern.confidence > 30)]

\* text[:100] + '...' if len(text) > 100 else text
TextSample(text) ==
  IF Len(text) > 100 THEN SubSeq(text, 1, 100) \o "..." ELSE text

\* log_concerning_analysis keeping every entry.
LogConcerningAnalysisUncapped(logs, text, analysis_result) ==
  Append(logs,
         [timestamp |-> now,
          text_sample |-> TextSample(text),
          original_score |-> analysis_result.original_compound,
          adjusted_score |-> analysis_result.adjusted_compound,
          is_sarcastic |-> analysis_result.is_sarcastic,
          mental_health_concern |-> analysis_result.mental_health_concern])

\* log_concerning_analysis: the entry is appended and the last ConcerningCap
\* entries are kept (the explanation is left out).
LogConcerningAnalysis(logs, text, analysis_result) ==
  LET entry == [timestamp |-> now,
                text_sample |-> TextSample(text),
                original_score |-> analysis_result.original_compound,
                adjusted_score |-> analysis_result.adjusted_compound,
                is_sarcastic |-> analysis_result.is_sarcastic,
                mental_health_concern |-> analysis_result.mental_health_concern]
      all == Append(logs, entry)
  IN  IF Len(all) > ConcerningCap
        THEN SubSeq(all, Len(all) - ConcerningCap + 1, Len(all))
        ELSE all

\* A call of analyze_context on the sample.
AnalyzeContextCall ==
  /\ pc = "idle"
  /\ detail' = [called |-> "analyze_context",
               result |-> AnalyzeContext(sample.text, sample.compound)]
  /\ op' = "analyze_context"
  /\ last_check' = NoCheck
  /\ UNCHANGED <<logv, statusv, alertsv, moodv, envv, guiv, fired, quiet, late,
                 last_good, last_day, stats, sample, concerning, appendv,
                 ended, morev>>

\* A call of analyze_sentiment on the sample: blank text returns 0.0 at once,
\* any other is analysed and logged when it needs attention.
AnalyzeSentimentCall ==
  /\ pc = "idle"
  /\ Len(concerning) < MaxConcerning
  /\ IF IsBlank(sample.text)
       THEN /\ detail' = [called |-> "analyze_sentiment", returned |-> 0,
                          logged |-> FALSE]
            /\ UNCHANGED concerning
       ELSE LET detailed_result == AnalyzeContext(sample.text, sample.compound)
            IN  /\ detail' = [called |-> "analyze_sentiment",
                              returned |-> detailed_result.adjusted_compound,
                              logged |-> detailed_result.needs_attention]
                /\ concerning' =
                     IF detailed_result.needs_attention
                       THEN LogConcerningAnalysis(concerning, sample.text,
                                                  detailed_result)
                       ELSE concerning
  /\ op' = "analyze_sentiment"
  /\ last_check' = NoCheck
  /\ UNCHANGED <<logv, statusv, alertsv, moodv, envv, guiv, fired, quiet, late,
                 last_good, last_day, stats, sample, appendv, ended,
                 morev>>

\* ------------------------------------------------------ appends to the log
\* The line each thread appends, as characters: a typed line, a recognized
\* sentence, and the line _log_emotional_cues writes for a crying voice.
Characters(w) ==
  CASE w = "keylogger" -> <<"s", "a", "d">>
    [] w = "transcription" -> <<"m", "e", "h">>
    [] w = "emotion" ->
         <<"[", "V", "o", "i", "c", "e", " ", "e", "m", "o", "t", "i", "o",
         "n", ":", " ", "C", "r", "y", "i", "n", "g", " ", "d", "e", "t", "e",
         "c", "t", "e", "d", " ", "(", "0", ".", "8", "0", ")", "]">>

\* "".join(buffer)
RECURSIVE Join(_)
Join(cs) == IF cs = <<>> THEN "" ELSE Head(cs) \o Join(Tail(cs))

\* line + "\n"
Record(w) == Append(Characters(w), "\n")

\* The file after data is written at offset pos (pos <= Len(content)).
WriteAt(content, pos, data) ==
  LET end == pos + Len(data)
      n == IF end > Len(content) THEN end ELSE Len(content)
  IN  [i \in 1..n |-> IF i > pos /\ i <= end THEN data[i - pos] ELSE content[i]]

\* f.readlines() without the line terminators.
RECURSIVE SplitLines(_, _, _)
SplitLines(content, i, cur) ==
  IF i > Len(content)
    THEN (IF cur = "" THEN <<>> ELSE <<cur>>)
    ELSE IF content[i] = "\n"
      THEN <<cur>> \o SplitLines(content, i + 1, "")
      ELSE SplitLines(content, i + 1, cur \o content[i])

ReadLines(content) == SplitLines(content, 1, "")

\* The appends of a thread that have completed.
Completed(w) ==
  Cardinality({i \in 1..Len(written) : written[i] = Join(Characters(w))})

\* What an append leaves of the variables of the one-step appends.
AppendFrame ==
  /\ op' = "append"
  /\ last_check' = NoCheck
  /\ quiet' = FALSE
  /\ late' = 0
  /\ last_day' = NoDay
  /\ UNCHANGED <<statusv, alertsv, moodv, envv, guiv, fired, last_good,
                 stats, sample, detail, concerning, append_by, ended,
                 morev>>

\* open("keystrokes.txt", "a"): the file is created when missing; f.write
\* fills the buffer of f.
OpenAppend(w) ==
  /\ pc = "idle"
  /\ wpc[w] = "idle"
  /\ Completed(w) < MaxAppends
  /\ wpc' = [wpc EXCEPT ![w] = "open"]
  /\ log_exists' = TRUE
  /\ UNCHANGED <<lines, bytes, wpos, written>>
  /\ AppendFrame

\* The flush at the end of the with block, where the system appends in one
\* step: the buffer goes to the end of the file as it is now.
WriteAtEnd(w) ==
  /\ append_by = "kernel"
  /\ wpc[w] = "open"
  /\ bytes' = bytes \o Record(w)
  /\ lines' = ReadLines(bytes')
  /\ written' = Append(written, Join(Characters(w)))
  /\ wpc' = [wpc EXCEPT ![w] = "idle"]
  /\ UNCHANGED <<log_exists, wpos>>
  /\ AppendFrame

\* The flush where the runtime appends by seeking to the end and then
\* writing: the seek.
SeekEnd(w) ==
  /\ append_by = "seek"
  /\ wpc[w] = "open"
  /\ wpos' = [wpos EXCEPT ![w] = Len(bytes)]
  /\ wpc' = [wpc EXCEPT ![w] = "sought"]
  /\ UNCHANGED <<logv, bytes, written>>
  /\ AppendFrame

\* The write that follows the seek, at the offset the seek found.
WriteAtOffset(w) ==
  /\ wpc[w] = "sought"
  /\ bytes' = WriteAt(bytes, wpos[w], Record(w))
  /\ lines' = ReadLines(bytes')
  /\ written' = Append(written, Join(Characters(w)))
  /\ wpc' = [wpc EXCEPT ![w] = "idle"]
  /\ UNCHANGED <<log_exists, wpos>>
  /\ AppendFrame

\* Texts of 100 and of 101 characters that match no pattern.
LongTexts ==
  {"sad sad sad sad sad sad sad sad sad sad sad sad sad sad sad sad sad sad sad sad sad sad sad sad sad!",
   "sad sad sad sad sad sad sad sad sad sad sad sad sad sad sad sad sad sad sad sad sad sad sad sad sad s"}

\* The texts scored in the specification of the concerning-analysis log.
ConcerningTexts == {"  ", "i feel worthless", "i love this beautiful sunny day"}
                     \cup LongTexts

\* analyze_sentiment(text) at the time now, the text having the given compound:
\* an analysis that needs attention is logged, and a failure inside
\* log_concerning_analysis (write_ok false) is caught there and leaves the log
\* as it was.
AnalyzeSentimentLogging(text, compound, write_ok) ==
  /\ pc = "idle"
  /\ detail.calls < MaxConcerningCalls
  /\ sample' = [text |-> text, compound |-> compound]
  /\ IF IsBlank(text)
       THEN /\ detail' = [called |-> "analyze_sentiment", returned |-> 0,
                          logged |-> FALSE, calls |-> detail.calls + 1]
            /\ UNCHANGED concerning
       ELSE LET detailed_result == AnalyzeContext(text, compound)
            IN  /\ detail' = [called |-> "analyze_sentiment",
                              returned |-> detailed_result.adjusted_compound,
                              logged |-> detailed_result.needs_attention /\ write_ok,
                              calls |-> detail.calls + 1]
                /\ concerning' =
                     IF detailed_result.needs_attention /\ write_ok
                       THEN LogConcerningAnalysis(concerning, text, detailed_result)
                       ELSE concerning
  /\ now' = now + 1
  /\ op' = "analyze_sentiment"
  /\ last_check' = NoCheck
  /\ UNCHANGED <<logv, statusv, alertsv, moodv, guardian_email, guiv, fired,
                 quiet, late, last_good, last_day, stats, appendv, ended, morev>>

\* -------------------------------------------------------------- AI companion
\* What the AI companion leaves alone.
CompanionFrame ==
  /\ last_check' = NoCheck
  /\ UNCHANGED <<logv, statusv, alertsv, moodv, guardian_email, guiv, fired,
                 quiet, late, last_good, last_day, stats, sample, detail,
                 concerning, appendv, ended, fault, day_call>>

\* _reset_daily_limits_if_needed(): the counter after the date test.
ResetDailyLimitsIfNeeded ==
  IF DayOf(now) # last_api_reset
    THEN [daily_api_calls |-> 0, last_api_reset |-> DayOf(now)]
    ELSE [daily_api_calls |-> daily_api_calls, last_api_reset |-> last_api_reset]

\* generate_response up to the await of the Gemini call: _can_make_api_call
\* resets the counter on a new date and compares it with the limit; over the
\* limit the template response is returned.
CanMakeApiCall(w) ==
  /\ aipc[w] = "idle"
  /\ daily_api_calls' = ResetDailyLimitsIfNeeded.daily_api_calls
  /\ last_api_reset' = ResetDailyLimitsIfNeeded.last_api_reset
  /\ IF ResetDailyLimitsIfNeeded.daily_api_calls < MAX_DAILY_API_CALLS
       THEN /\ aipc' = [aipc EXCEPT ![w] = "calling"]
            /\ op' = "api_call"
       ELSE /\ UNCHANGED aipc
            /\ op' = "template_response"
  /\ UNCHANGED now
  /\ CompanionFrame

\* The Gemini call returns: a response is counted, no response or an error
\* falls back to the template.
GeminiReturns(w, response) ==
  /\ aipc[w] = "calling"
  /\ daily_api_calls' = IF response THEN daily_api_calls + 1 ELSE daily_api_calls
  /\ aipc' = [aipc EXCEPT ![w] = "idle"]
  /\ op' = IF response THEN "api_response" ELSE "template_response"
  /\ UNCHANGED <<last_api_reset, now>>
  /\ CompanionFrame

\* Time passes.
CompanionTick ==
  /\ now < MaxCompanionTicks
  /\ now' = now + 1
  /\ op' = "tick"
  /\ UNCHANGED aiv
  /\ CompanionFrame

\* The threads on_send_click starts, each running generate_response.
Workers == {"chat1", "chat2"}

\* AICompanion.__init__: no call counted, the count dated today.
InitCompanion ==
  /\ daily_api_calls = 0
  /\ last_api_reset = DayOf(now)
  /\ aipc = [w \in Workers |-> "idle"]

\* The threads that call get_day_analysis: the GUI thread from the live
\* graph's animate, a chat worker from send_message.
DayThreads == {"gui", "chat"}

\* A thread outside get_day_analysis.
NoDayCall == [at |-> "idle", current_size |-> 0, result |-> <<>>, todo |-> <<>>,
              history |-> <<>>]

\* No scorer failure so far, a fresh AI companion, no thread inside
\* get_day_analysis.
InitMore ==
  /\ fault = NoFault
  /\ InitCompanion
  /\ day_call = [t \in DayThreads |-> NoDayCall]

\* --------------------------------------------- get_day_analysis, statement by
\* statement, on two threads
\* What a step of get_day_analysis leaves alone.
DayFrame ==
  /\ last_check' = NoCheck
  /\ last_day' = NoDay
  /\ UNCHANGED <<logv, statusv, alertsv, envv, guiv, fired, quiet, late,
                 last_good, stats, sample, detail, concerning, appendv, ended,
                 fault, aiv>>

\* get_day_analysis up to the scoring loop: without a log, or with the file
\* size of the filled cache, it returns at once; else it reads the lines and
\* starts from a copy of the cache or from nothing.
DayBegin(t) ==
  /\ day_call[t].at = "idle"
  /\ IF ~log_exists \/ (FileSize(lines) = last_file_size /\ analysis_cache # <<>>)
       THEN /\ UNCHANGED day_call
            /\ op' = "get_day_analysis"
       ELSE /\ day_call' =
                 [day_call EXCEPT ![t] =
                    [at |-> "scoring", current_size |-> FileSize(lines),
                     result |-> IF analysis_cache # <<>>
                                     /\ FileSize(lines) > last_file_size
                                  THEN analysis_cache ELSE <<>>,
                     todo |-> NewScores, history |-> <<>>]]
            /\ op' = "day_begin"
  /\ UNCHANGED moodv
  /\ DayFrame

\* The loop body up to save_mood_to_history's json.load: the score is
\* appended to result, the stored history is read.
DayLoad(t) ==
  /\ day_call[t].at = "scoring"
  /\ day_call[t].todo # <<>>
  /\ Len(all_saved) < MaxDayHistory
  /\ day_call' =
       [day_call EXCEPT ![t].at = "loaded",
                        ![t].result = @ \o Stamped(<<Head(day_call[t].todo)>>),
                        ![t].history = IF history_exists THEN mood_history
                                                        ELSE <<>>]
  /\ op' = "day_load"
  /\ UNCHANGED moodv
  /\ DayFrame

\* The rest of save_mood_to_history: the history it read, with the new entry,
\* is written back.
DayWrite(t) ==
  /\ day_call[t].at = "loaded"
  /\ mood_history' = SaveMoodToHistory(TRUE, day_call[t].history,
                                       Head(day_call[t].todo))
  /\ history_exists' = TRUE
  /\ all_saved' = all_saved \o Stamped(<<Head(day_call[t].todo)>>)
  /\ day_call' = [day_call EXCEPT ![t].at = "scoring", ![t].todo = Tail(@),
                                  ![t].history = <<>>]
  /\ op' = "day_save"
  /\ UNCHANGED <<analysis_cache, last_file_size>>
  /\ DayFrame

\* After the loop: the cache and the file size are replaced by the thread's
\* own, and result is returned.
DayPublish(t) ==
  /\ day_call[t].at = "scoring"
  /\ day_call[t].todo = <<>>
  /\ analysis_cache' = day_call[t].result
  /\ last_file_size' = day_call[t].current_size
  /\ day_call' = [day_call EXCEPT ![t] = NoDayCall]
  /\ op' = "get_day_analysis"
  /\ UNCHANGED <<history_exists, mood_history, all_saved>>
  /\ DayFrame

\* ---------------------------------------------------------- scorer failures
\* analyze_sentiment(text) when the enhanced analyzer may raise on the text:
\* blank text returns 0.0 before the analyzer runs; the call of analyze_context
\* is in no try block, so its exception leaves analyze_sentiment.
AnalyzeSentimentOutcome(text, raises) ==
  IF text = "" \/ Strip(text) = ""
    THEN [raised |-> FALSE, score |-> 0]
    ELSE IF raises
      THEN [raised |-> TRUE, score |-> 0]
      ELSE [raised |-> FALSE, score |-> AdjustedCompound(text)]

\* The lines of the log count_below_threshold may fail on: the non-blank lines
\* past last_alert_line.
ScannedLines ==
  {k \in (GetAlertStatus + 1)..Len(lines) : Strip(lines[k]) # ""}

\* The stripped non-blank lines get_day_analysis is to score, in order.
NewLines ==
  LET todo == IF analysis_cache # <<>> /\ FileSize(lines) > last_file_size
                THEN Slice(lines, Len(analysis_cache)) ELSE lines
  IN  SelectSeq([i \in 1..Len(todo) |-> Strip(todo[i])], IsNonBlank)

\* What a call leaves alone when the scorer raises in it.
FaultFrame ==
  /\ op' = "scoring_error"
  /\ last_check' = NoCheck
  /\ UNCHANGED <<logv, statusv, alertsv, envv, guiv, fired, quiet, late,
                 last_good, stats, sample, detail, concerning, appendv, ended,
                 aiv, day_call>>

\* check_and_alert when the scorer raises on line k: count_below_threshold has
\* no handler, the handler of check_and_alert prints the error and returns.
CheckAndAlertRaising(k) ==
  /\ pc = "idle"
  /\ guardian_email # ""
  /\ log_exists
  /\ k \in ScannedLines
  /\ AnalyzeSentimentOutcome(lines[k], TRUE).raised
  /\ fault' = [call |-> "check_and_alert",
               propagated |-> AnalyzeSentimentOutcome(lines[k], TRUE).raised,
               escaped |-> FALSE,
               done |-> k - 1 - GetAlertStatus,
               due |-> Len(lines) - GetAlertStatus]
  /\ UNCHANGED <<moodv, last_day>>
  /\ FaultFrame

\* check_and_add_guardian_alert when the scorer raises on line k: the
\* exception leaves the function, which has no handler.
GuardianCheckRaising(k) ==
  /\ pc = "idle"
  /\ log_exists
  /\ k \in ScannedLines
  /\ AnalyzeSentimentOutcome(lines[k], TRUE).raised
  /\ fault' = [call |-> "check_and_add_guardian_alert",
               propagated |-> AnalyzeSentimentOutcome(lines[k], TRUE).raised,
               escaped |-> TRUE,
               done |-> k - 1 - GetAlertStatus,
               due |-> Len(lines) - GetAlertStatus]
  /\ UNCHANGED <<moodv, last_day>>
  /\ FaultFrame

\* get_day_analysis when the scorer raises on the k-th line it scores: the
\* lines before it are scored and saved to the history, the handler of
\* get_day_analysis returns the cache as it was, and neither the cache nor the
\* remembered file size is updated.
DayAnalysisRaising(k, max) ==
  /\ pc = "idle"
  /\ log_exists
  /\ ~(FileSize(lines) = last_file_size /\ analysis_cache # <<>>)
  /\ k \in 1..Len(NewScores)
  /\ Len(mood_history) + k - 1 <= max
  /\ AnalyzeSentimentOutcome(NewLines[k], TRUE).raised
  /\ LET before == SubSeq(NewScores, 1, k - 1)
     IN  /\ mood_history' = SaveAll(history_exists, mood_history, before)
         /\ history_exists' = (history_exists \/ before # <<>>)
         /\ all_saved' = all_saved \o Stamped(before)
         /\ last_day' = [valid |-> TRUE, result |-> ScoreList(analysis_cache),
                         scored |-> k - 1, saved |-> k - 1]
  /\ UNCHANGED <<analysis_cache, last_file_size>>
  /\ fault' = [call |-> "get_day_analysis",
               propagated |-> AnalyzeSentimentOutcome(NewLines[k], TRUE).raised,
               escaped |-> FALSE,
               done |-> Len(analysis_cache),
               due |-> Len(ScoresOf(lines))]
  /\ FaultFrame

\* ------------------------------------------------------------- session end
\* The truncation left out: the log keeps its lines.
TruncateLogKeep ==
  /\ log_exists' = log_exists
  /\ lines' = lines

\* open("keystrokes.txt", "w") when the file exists.
TruncateLog ==
  /\ log_exists' = log_exists
  /\ lines' = <<>>

\* json.dump([], alerts_log.json) when the file exists.
ClearAlertsLog ==
  /\ alerts_exists' = alerts_exists
  /\ alerts_log' = <<>>

\* The record of a run of a session-end handler: its runs in a row are counted
\* up to MaxEndRuns (main.py runs cleanup from the signal handler, the finally
\* block and atexit).
Ended(handler) ==
  [handler |-> handler,
   runs |-> IF op = "reset" /\ ended.handler = handler
              THEN (IF ended.runs < MaxEndRuns THEN ended.runs + 1 ELSE ended.runs)
              ELSE 1]

\* gui.on_close: keystrokes cleared, alert log cleared, alert status reset.
OnClose ==
  /\ pc = "idle"
  /\ TruncateLog
  /\ ClearAlertsLog
  /\ ResetAlertStatus
  /\ fired' = <<>> /\ quiet' = FALSE /\ late' = 0
  /\ op' = "reset"
  /\ last_check' = NoCheck
  /\ UNCHANGED <<moodv, envv, guiv>>
  /\ last_good' = NoReading
  /\ last_day' = NoDay
  /\ ended' = Ended("on_close")
  /\ UNCHANGED keptv

\* analyzer.clear_all_logs: the same three steps as on_close.
ClearAllLogs ==
  /\ pc = "idle"
  /\ TruncateLog
  /\ ClearAlertsLog
  /\ ResetAlertStatus
  /\ fired' = <<>> /\ quiet' = FALSE /\ late' = 0
  /\ op' = "reset"
  /\ last_check' = NoCheck
  /\ UNCHANGED <<moodv, envv, guiv, last_good>>
  /\ last_day' = NoDay
  /\ ended' = Ended("clear_all_logs")
  /\ UNCHANGED keptv

\* main.cleanup: alert status reset, analysis cache reset, keystrokes
\* cleared, alert log cleared; mood_history.json is kept.
Cleanup ==
  /\ pc = "idle"
  /\ ResetAlertStatus
  /\ analysis_cache' = <<>> /\ last_file_size' = 0
  /\ TruncateLog
  /\ ClearAlertsLog
  /\ fired' = <<>> /\ quiet' = FALSE /\ late' = 0
  /\ op' = "reset"
  /\ last_check' = NoCheck
  /\ UNCHANGED <<history_exists, mood_history, all_saved, envv, guiv>>
  /\ last_good' = NoReading
  /\ last_day' = NoDay
  /\ ended' = Ended("cleanup")
  /\ UNCHANGED keptv

\* The session-end handlers step by step, the keylogger thread appending
\* between their steps. What a step leaves alone and how it marks the history:
EndStepFrame ==
  /\ fired' = <<>> /\ quiet' = FALSE /\ late' = 0
  /\ last_check' = NoCheck
  /\ last_good' = NoReading
  /\ last_day' = NoDay
  /\ result' = result
  /\ UNCHANGED <<history_exists, mood_history, all_saved, envv, keptv>>

\* on_close and clear_all_logs up to the truncation of keystrokes.txt.
TruncateFirst(handler) ==
  /\ pc = "idle"
  /\ TruncateLog
  /\ pc' = handler
  /\ op' = "truncate"
  /\ UNCHANGED <<statusv, alertsv, analysis_cache, last_file_size, ended>>
  /\ EndStepFrame

\* The rest of on_close and clear_all_logs: the alert log is cleared, then
\* reset_alert_status.
ResetLast(handler) ==
  /\ pc = handler
  /\ ClearAlertsLog
  /\ ResetAlertStatus
  /\ pc' = "idle"
  /\ op' = "reset"
  /\ ended' = Ended(handler)
  /\ UNCHANGED <<logv, analysis_cache, last_file_size>>
  /\ EndStepFrame

OnCloseTruncate == TruncateFirst("on_close")
OnCloseReset == ResetLast("on_close")
ClearAllLogsTruncate == TruncateFirst("clear_all_logs")
ClearAllLogsReset == ResetLast("clear_all_logs")

\* main.cleanup up to reset_analysis_cache: the pointer is reset first.
CleanupResetFirst ==
  /\ pc = "idle"
  /\ ResetAlertStatus
  /\ analysis_cache' = <<>> /\ last_file_size' = 0
  /\ pc' = "cleanup"
  /\ op' = "reset_status"
  /\ UNCHANGED <<logv, alertsv, ended>>
  /\ EndStepFrame

\* The rest of main.cleanup: keystrokes.txt is truncated, the alert log
\* cleared.
CleanupTruncateLast ==
  /\ pc = "cleanup"
  /\ TruncateLog
  /\ ClearAlertsLog
  /\ pc' = "idle"
  /\ op' = "reset"
  /\ ended' = Ended("cleanup")
  /\ UNCHANGED <<statusv, analysis_cache, last_file_size>>
  /\ EndStepFrame

\* The keystroke log is taken away from outside the program (the os.path.exists
\* test of count_below_threshold is there for this).
RemoveLog ==
  /\ log_exists
  /\ log_exists' = FALSE
  /\ lines' = <<>>
  /\ fired' = <<>> /\ quiet' = FALSE
  /\ op' = "remove_log"
  /\ last_check' = NoCheck
  /\ UNCHANGED <<statusv, alertsv, moodv, envv, guiv, late, last_good>>
  /\ last_day' = NoDay
  /\ UNCHANGED restv

\* ------------------------------------------------------------ specification
Init ==
  /\ log_exists = FALSE /\ lines = <<>>
  /\ status_exists = FALSE /\ last_alert_line = 0
  /\ alerts_exists = FALSE /\ alerts_log = <<>>
  /\ history_exists = FALSE /\ mood_history = <<>>
  /\ analysis_cache = <<>> /\ last_file_size = 0
  /\ guardian_email \in {"", "guardian@example.org"}
  /\ now = 0
  /\ pc = "idle" /\ result = NoResult
  /\ op = "init"
  /\ last_check = NoCheck
  /\ fired = <<>>
  /\ quiet = FALSE
  /\ late = 0
  /\ last_good = NoReading
  /\ all_saved = <<>>
  /\ last_day = NoDay
  /\ stats = NoStats /\ concerning = <<>>
  /\ sample = NoSample /\ detail = NoDetail
  /\ InitAppend
  /\ ended = NoEnd
  /\ InitMore

\* Appends and alert checks only: no reset, no truncation.
NextAlert ==
  \/ \E t \in Texts : OnPress(t, MaxLines)
  \/ \E t \in SpokenTexts : AnalyzeAndSave(t, MaxLines)
  \/ CheckAndAlertBegin
  \/ CheckAndAlertFinish
  \/ GuardianCheckBegin
  \/ GuardianCheckFinish

SpecAlert == Init /\ [][NextAlert]_vars

\* Alerting over a session: appends, alert checks, session end, and the log
\* taken away from outside.
NextSession ==
  \/ \E t \in SessionTexts : OnPress(t, MaxSessionLines)
  \/ \E t \in SpokenTexts : AnalyzeAndSave(t, MaxSessionLines)
  \/ CheckAndAlertBegin
  \/ CheckAndAlertFinish
  \/ GuardianCheckBegin
  \/ GuardianCheckFinish
  \/ OnClose
  \/ ClearAllLogs
  \/ Cleanup
  \/ RemoveLog

SpecSession == Init /\ [][NextSession]_vars

\* Every operation of the program, on a log of plain lines.
Next ==
  \/ \E t \in PlainTexts : OnPress(t, MaxPlainLines)
  \/ \E t \in PlainTexts : AnalyzeAndSave(t, MaxPlainLines)
  \/ CheckAndAlertBegin
  \/ CheckAndAlertFinish
  \/ GuardianCheckBegin
  \/ GuardianCheckFinish
  \/ GetDayAnalysis
  \/ ReadLatestMood
  \/ ClearMoodHistory
  \/ OnClose
  \/ ClearAllLogs
  \/ Cleanup

Spec == Init /\ [][Next]_vars

\* Live ingestion: lines are typed or spoken and get_day_analysis is called
\* again and again (the animate callback of the live graph).
NextIngest ==
  \/ \E t \in IngestTexts : OnPress(t, MaxIngestLines)
  \/ \E t \in SpokenTexts : AnalyzeAndSave(t, MaxIngestLines)
  \/ DayAnalysis(MaxIngestHistory)

SpecIngest == Init /\ [][NextIngest]_vars

\* The privacy control of the analytics view: lines are typed, analysed and
\* charted, and the mood history is cleared.
NextPrivacy ==
  \/ \E t \in PlainTexts : OnPress(t, MaxPrivacyLines)
  \/ \E t \in PlainTexts : AnalyzeAndSave(t, MaxPrivacyLines)
  \/ DayAnalysis(MaxPrivacyHistory)
  \/ ClearMoodHistory
  \/ \E period \in Periods : GetMoodStatistics(period, MaxPrivacyHistory)
  \/ Cleanup

SpecPrivacy == Init /\ [][NextPrivacy]_vars

\* The clock readings get_mood_statistics is called at: late on every day up
\* to StatsLastDay.
StatsClock == {d * TicksPerDay + TicksPerDay - 1 : d \in 0..StatsLastDay}

\* The days whose histories are charted in full: 29 February 2024, 1 March
\* 2025 and 31 December 2025.
StatsDays == {59, 425, 730}

StatsScores == {0, -60, 40}

\* Timestamps around the clock reading t: now, earlier today, yesterday, the
\* start of tomorrow, the day before the daily window and its last tick.
StampsAround(t) ==
  {t, t - 1, t - TicksPerDay, t + 1, t - DailyWindow * TicksPerDay,
   t - DailyWindow * TicksPerDay + 1}

\* The histories of 1..n entries stamped around t.
HistoriesAround(t, n) ==
  UNION {[1..k -> [timestamp : StampsAround(t), score : StatsScores]] : k \in 1..n}

\* mood_history.json as get_mood_statistics finds it: one entry on any day,
\* or a history around one of StatsDays.
InitStats ==
  /\ log_exists = FALSE /\ lines = <<>>
  /\ status_exists = FALSE /\ last_alert_line = 0
  /\ alerts_exists = FALSE /\ alerts_log = <<>>
  /\ now \in StatsClock
  /\ \/ mood_history = <<[timestamp |-> now - 1, score |-> 0]>>
     \/ /\ DayOf(now) \in StatsDays
        /\ mood_history \in HistoriesAround(now, MaxStatsEntries)
  /\ all_saved = mood_history
  /\ history_exists = TRUE
  /\ analysis_cache = <<>> /\ last_file_size = 0
  /\ guardian_email = ""
  /\ pc = "idle" /\ result = NoResult
  /\ op = "init"
  /\ last_check = NoCheck
  /\ fired = <<>>
  /\ quiet = FALSE
  /\ late = 0
  /\ last_good = NoReading
  /\ last_day = NoDay
  /\ stats = NoStats /\ concerning = <<>>
  /\ sample = NoSample /\ detail = NoDetail
  /\ InitAppend
  /\ ended = NoEnd
  /\ InitMore

\* get_mood_statistics called for each period on a stored history.
NextStats ==
  \E period \in Periods : GetMoodStatistics(period, MaxStatsEntries)

SpecStats == InitStats /\ [][NextStats]_vars

\* The analyzer applied to one text: the sample is any text of AnalyzerTexts
\* with any compound of Compounds.
InitAnalyzer ==
  /\ log_exists = FALSE /\ lines = <<>>
  /\ status_exists = FALSE /\ last_alert_line = 0
  /\ alerts_exists = FALSE /\ alerts_log = <<>>
  /\ history_exists = FALSE /\ mood_history = <<>>
  /\ analysis_cache = <<>> /\ last_file_size = 0
  /\ guardian_email = ""
  /\ now = 0
  /\ pc = "idle" /\ result = NoResult
  /\ op = "init"
  /\ last_check = NoCheck
  /\ fired = <<>>
  /\ quiet = FALSE
  /\ late = 0
  /\ last_good = NoReading
  /\ all_saved = <<>>
  /\ last_day = NoDay
  /\ stats = NoStats /\ concerning = <<>>
  /\ sample \in [text : AnalyzerTexts, compound : Compounds]
  /\ InitAppend
  /\ ended = NoEnd
  /\ InitMore
  /\ detail = NoDetail

NextAnalyzer ==
  \/ AnalyzeContextCall
  \/ AnalyzeSentimentCall

SpecAnalyzer == InitAnalyzer /\ [][NextAnalyzer]_vars

\* A concerning_analysis.json of n entries: entry i was logged at clock i - 1.
PrefilledConcerning(n) ==
  [i \in 1..n |-> [timestamp |-> i - 1, text_sample |-> "i feel worthless",
                   original_score |-> -40, adjusted_score |-> -70,
                   is_sarcastic |-> FALSE, mental_health_concern |-> TRUE]]

ConcerningSizes == {0, ConcerningCap - 1, ConcerningCap}

InitConcerning ==
  /\ log_exists = FALSE /\ lines = <<>>
  /\ status_exists = FALSE /\ last_alert_line = 0
  /\ alerts_exists = FALSE /\ alerts_log = <<>>
  /\ history_exists = FALSE /\ mood_history = <<>>
  /\ analysis_cache = <<>> /\ last_file_size = 0
  /\ guardian_email = ""
  /\ \E n \in ConcerningSizes :
       /\ concerning = PrefilledConcerning(n)
       /\ now = n
  /\ pc = "idle" /\ result = NoResult
  /\ op = "init"
  /\ last_check = NoCheck
  /\ fired = <<>>
  /\ quiet = FALSE
  /\ late = 0
  /\ last_good = NoReading
  /\ all_saved = <<>>
  /\ last_day = NoDay
  /\ stats = NoStats
  /\ sample = NoSample
  /\ detail = [called |-> "none", calls |-> 0]
  /\ InitAppend
  /\ ended = NoEnd
  /\ InitMore

\* analyze_sentiment called again and again on a log near its cap.
NextConcerning ==
  \E text \in ConcerningTexts, compound \in {-90, 50}, write_ok \in BOOLEAN :
    AnalyzeSentimentLogging(text, compound, write_ok)

SpecConcerning == InitConcerning /\ [][NextConcerning]_vars

\* The AI companion after a day of chatting: the counter at 0 or close to the
\* limit, the count dated today.
InitAi ==
  /\ log_exists = FALSE /\ lines = <<>>
  /\ status_exists = FALSE /\ last_alert_line = 0
  /\ alerts_exists = FALSE /\ alerts_log = <<>>
  /\ history_exists = FALSE /\ mood_history = <<>>
  /\ analysis_cache = <<>> /\ last_file_size = 0
  /\ guardian_email = ""
  /\ now = 0
  /\ pc = "idle" /\ result = NoResult
  /\ op = "init"
  /\ last_check = NoCheck
  /\ fired = <<>>
  /\ quiet = FALSE
  /\ late = 0
  /\ last_good = NoReading
  /\ all_saved = <<>>
  /\ last_day = NoDay
  /\ stats = NoStats /\ concerning = <<>>
  /\ sample = NoSample /\ detail = NoDetail
  /\ InitAppend
  /\ ended = NoEnd
  /\ fault = NoFault
  /\ day_call = [t \in DayThreads |-> NoDayCall]
  /\ daily_api_calls \in {0, MAX_DAILY_API_CALLS - 2, MAX_DAILY_API_CALLS - 1}
  /\ last_api_reset = DayOf(now)
  /\ aipc = [w \in Workers |-> "idle"]

\* Chat messages sent from worker threads while time passes.
NextAi ==
  \/ \E w \in Workers : CanMakeApiCall(w)
  \/ \E w \in Workers, response \in BOOLEAN : GeminiReturns(w, response)
  \/ CompanionTick

SpecAi == InitAi /\ [][NextAi]_vars

\* get_day_analysis on the GUI thread and on a chat worker while lines are
\* typed.
NextDay ==
  \/ \E t \in PlainTexts : OnPress(t, MaxDayLines)
  \/ \E t \in DayThreads : DayBegin(t)
  \/ \E t \in DayThreads : DayLoad(t)
  \/ \E t \in DayThreads : DayWrite(t)
  \/ \E t \in DayThreads : DayPublish(t)

SpecDay == Init /\ [][NextDay]_vars

\* The guardian dashboard while lines are typed: its check, then the state
\* it shows.
NextGuardian ==
  \/ \E t \in SessionTexts : OnPress(t, MaxGuardianLines)
  \/ GuardianCheckBegin
  \/ GuardianCheckFinish
  \/ ShowGuardianState

SpecGuardian == Init /\ [][NextGuardian]_vars

\* The reads of mood data the GUI makes while lines are typed.
NextReads ==
  \/ \E t \in PlainTexts : OnPress(t, MaxReadLines)
  \/ GetMoodSummary(MaxReadHistory)
  \/ \E period \in Periods : GetMoodStatistics(period, MaxReadHistory)
  \/ ClearMoodHistory

SpecReads == Init /\ [][NextReads]_vars

\* Session ends while the keylogger runs: lines are typed, the guardian check
\* acknowledges them, and the three session-end handlers run step by step.
NextEnd ==
  \/ \E t \in PlainTexts : OnPress(t, MaxEndLines)
  \/ GuardianCheckBegin
  \/ GuardianCheckFinish
  \/ OnCloseTruncate
  \/ OnCloseReset
  \/ ClearAllLogsTruncate
  \/ ClearAllLogsReset
  \/ CleanupResetFirst
  \/ CleanupTruncateLast

SpecEnd == Init /\ [][NextEnd]_vars

\* Scans of the log in which the scorer may raise on a line.
NextFault ==
  \/ \E t \in PlainTexts : OnPress(t, MaxFaultLines)
  \/ DayAnalysis(MaxFaultHistory)
  \/ \E k \in 1..MaxFaultLines : DayAnalysisRaising(k, MaxFaultHistory)
  \/ \E k \in 1..MaxFaultLines : CheckAndAlertRaising(k)
  \/ \E k \in 1..MaxFaultLines : GuardianCheckRaising(k)

SpecFault == Init /\ [][NextFault]_vars

\* A session without a log, on a platform of either kind.
InitWriters ==
  /\ log_exists = FALSE /\ lines = <<>>
  /\ status_exists = FALSE /\ last_alert_line = 0
  /\ alerts_exists = FALSE /\ alerts_log = <<>>
  /\ history_exists = FALSE /\ mood_history = <<>>
  /\ analysis_cache = <<>> /\ last_file_size = 0
  /\ guardian_email = ""
  /\ now = 0
  /\ pc = "idle" /\ result = NoResult
  /\ op = "init"
  /\ last_check = NoCheck
  /\ fired = <<>>
  /\ quiet = FALSE
  /\ late = 0
  /\ last_good = NoReading
  /\ all_saved = <<>>
  /\ last_day = NoDay
  /\ stats = NoStats /\ concerning = <<>>
  /\ sample = NoSample /\ detail = NoDetail
  /\ bytes = <<>>
  /\ append_by \in AppendModes
  /\ wpc = [w \in Writers |-> "idle"]
  /\ wpos = [w \in Writers |-> 0]
  /\ written = <<>>
  /\ ended = NoEnd
  /\ InitMore

\* The three threads appending to keystrokes.txt, each append step by step.
NextAppend ==
  \/ \E w \in Writers : OpenAppend(w)
  \/ \E w \in Writers : WriteAtEnd(w)
  \/ \E w \in Writers : SeekEnd(w)
  \/ \E w \in Writers : WriteAtOffset(w)

SpecAppend == InitWriters /\ [][NextAppend]_vars

\* A filled mood_history.json: entry i was saved at clock i - 1.
Prefilled(n) ==
  [i \in 1..n |-> [timestamp |-> i - 1, score |-> IF i % 2 = 0 THEN -60 ELSE 40]]

StartSizes == {HISTORY_CAP - 2, HISTORY_CAP - 1, HISTORY_CAP}

InitHistory ==
  /\ log_exists = FALSE /\ lines = <<>>
  /\ status_exists = FALSE /\ last_alert_line = 0
  /\ alerts_exists = FALSE /\ alerts_log = <<>>
  /\ \E n \in StartSizes :
       /\ mood_history = Prefilled(n)
       /\ all_saved = Prefilled(n)
       /\ now = n
  /\ history_exists = TRUE
  /\ analysis_cache = <<>> /\ last_file_size = 0
  /\ guardian_email = ""
  /\ pc = "idle" /\ result = NoResult
  /\ op = "init"
  /\ last_check = NoCheck
  /\ fired = <<>>
  /\ quiet = FALSE
  /\ late = 0
  /\ last_good = NoReading
  /\ last_day = NoDay
  /\ stats = NoStats /\ concerning = <<>>
  /\ sample = NoSample /\ detail = NoDetail
  /\ InitAppend
  /\ ended = NoEnd
  /\ InitMore

\* save_mood_to_history called again and again on a history near its cap.
NextHistory ==
  \/ \E s \in HistoryScores : SaveMoodCall(s)
  \/ ClearMoodHistory

SpecHistory == InitHistory /\ [][NextHistory]_vars

\* ------------------------------------------------------------------ claims
\* The breaching lines of the current log in the line window (from, to].
BreachIndices(from, to) ==
  {k \in (from + 1)..to :
     k <= Len(lines) /\ Strip(lines[k]) # ""
       /\ AnalyzeSentiment(Strip(lines[k])) < THRESHOLD}

\* The n-th smallest member of a set of line numbers.
Nth(S, n) == CHOOSE k \in S : Cardinality({j \in S : j <= k}) = n

\* C1: after an alert fired, with no line appended since the firing check
\* scanned the log (and no reset or truncation), count_below_threshold
\* returns a breach count of 0 and the next alert check fires nothing.
C1_NoRecountAfterFire ==
  /\ [](quiet => /\ CountBelowThreshold(FALSE).count = 0
                 /\ CountBelowThreshold(TRUE).count = 0
                 /\ (pc # "idle" => result.count = 0))
  /\ [][quiet => op' \notin {"fire", "check_error"}]_vars

C1_Witness ==
  /\ quiet /\ op = "no_fire"
  /\ last_check.count = 0 /\ last_check.start >= ALERT_LIMIT + 1
  /\ Len(fired) = 1

\* C2: an alert check that counted fires if and only if the count is above
\* ALERT_LIMIT: at or below the limit no record is written, no notifier is
\* called and last_alert_line is unchanged; above it last_alert_line is set
\* to the total the same count_below_threshold call returned.
C2_FiresIffOverLimit ==
  last_check.path \in {"alert", "guardian"} =>
    IF last_check.count > ALERT_LIMIT
      THEN last_check.advanced /\ GetAlertStatus = last_check.latest_line
      ELSE /\ ~last_check.advanced
           /\ last_check.notifier = "none"
           /\ last_check.recorded = "none"
           /\ GetAlertStatus = last_check.start

\* C3: with appends and alert checks only, every line of the keystroke log
\* lies in the window of at most one fired alert.
C3_DisjointWindows ==
  \A k \in 1..Len(lines) :
    Cardinality({i \in DOMAIN fired :
                   fired[i].start < k /\ k <= fired[i].latest_line}) <= 1

C3_Witness ==
  /\ Len(fired) = 2
  /\ fired[1].latest_line > fired[1].start
  /\ fired[2].latest_line > fired[2].start

\* C4: last_alert_line never moves past a breaching line the firing alert did
\* not count, and a line appended between the scan and set_alert_status stays
\* after last_alert_line.
C4_NoCrossingDropped ==
  op = "fire" =>
    /\ GetAlertStatus = last_check.latest_line
    /\ GetAlertStatus <= Len(lines)
    /\ last_check.count = Cardinality(BreachIndices(last_check.start, GetAlertStatus))
    /\ Len(lines) - GetAlertStatus = last_check.late

C4_Witness ==
  /\ op = "fire"
  /\ last_check.late > 0
  /\ Len(lines) \in BreachIndices(GetAlertStatus, Len(lines))

\* C5 (as stated): the record written at a firing has as its count the number
\* of lines after last_alert_line scoring below THRESHOLD and as its sample
\* lines exactly those lines' texts, in log order.
C5_RecordHasLineTexts ==
  (op = "fire" /\ last_check.path = "guardian") =>
    LET r == Head(alerts_log)
        S == BreachIndices(last_check.start, last_check.latest_line)
    IN  /\ r.negative_count = Cardinality(S)
        /\ Len(r.reason_lines) = Cardinality(S)
        /\ \A n \in 1..Cardinality(S) : r.reason_lines[n] = lines[Nth(S, n)]

\* C5 (amended): the count is as stated and the sample lines are those lines'
\* texts with leading and trailing whitespace stripped, in log order; six
\* breaching lines with ALERT_LIMIT = 5 give a record of count 6.
C5_RecordHasStrippedTexts ==
  (op = "fire" /\ last_check.path = "guardian") =>
    LET r == Head(alerts_log)
        S == BreachIndices(last_check.start, last_check.latest_line)
    IN  /\ r.negative_count = Cardinality(S)
        /\ r.negative_count > ALERT_LIMIT
        /\ Len(r.reason_lines) = Cardinality(S)
        /\ \A n \in 1..Cardinality(S) : r.reason_lines[n] = Strip(lines[Nth(S, n)])

C5_Witness ==
  /\ op = "fire" /\ last_check.path = "guardian"
  /\ Head(alerts_log).negative_count = ALERT_LIMIT + 1
  /\ Head(alerts_log).reason_lines = <<"sad", "sad", "die", "sad", "sad", "sad">>
  /\ Len(lines) = ALERT_LIMIT + 2

\* C6: a firing whose notifier reported failure leaves a record of status
\* Failed for it, and a record of status Sent is written only for a firing
\* whose notifier reported success.
C6_FailureRecorded ==
  /\ (last_check.notifier = "false" =>
        /\ alerts_log # <<>>
        /\ Head(alerts_log).status = "Failed"
        /\ Head(alerts_log).negative_count = last_check.count)
  /\ ((last_check.recorded # "none" /\ Head(alerts_log).status = "Sent") =>
        last_check.notifier = "ok")

\* C7: when check_and_alert finds the count above ALERT_LIMIT, a notifier that
\* returns False or fails with an error does not keep last_alert_line from
\* advancing to the scanned total.
C7_AdvanceDespiteFailure ==
  (last_check.path = "alert" /\ last_check.notifier \in {"false", "raise"}) =>
    /\ last_check.advanced
    /\ GetAlertStatus = last_check.latest_line

C9_OnlyFireOrReset ==
  /\ [][GetAlertStatus' # GetAlertStatus => op' \in {"fire", "reset"}]_vars
  /\ [](op = "reset" => GetAlertStatus = 0)

C9_Witness ==
  /\ op = "get_day_analysis"
  /\ GetAlertStatus > 0
  /\ mood_history # <<>>

\* C10: the stored history never exceeds HISTORY_CAP entries and is always the
\* most recently saved min(saved, HISTORY_CAP) entries, in insertion order.
C10_HistoryCapFifo ==
  /\ Len(mood_history) <= HISTORY_CAP
  /\ Len(mood_history) = IF Len(all_saved) > HISTORY_CAP THEN HISTORY_CAP
                         ELSE Len(all_saved)
  /\ \A i \in 1..Len(mood_history) :
       mood_history[i] = all_saved[Len(all_saved) - Len(mood_history) + i]

C10_Witness ==
  /\ Len(all_saved) >= HISTORY_CAP + 2
  /\ Len(mood_history) = HISTORY_CAP
  /\ op = "save_mood"
\* The number of non-blank lines of the keystroke log.
NonBlankCount == Len(ScoresOf(lines))

\* C11: a get_day_analysis call on a keystroke log unchanged since the
\* previous call returns the same scores, scores no line and appends nothing
\* to the mood history.
C11_DayAnalysisIdempotent ==
  [][(last_day.valid /\ op' = "get_day_analysis") =>
       /\ last_day'.result = last_day.result
       /\ last_day'.scored = 0
       /\ last_day'.saved = 0
       /\ mood_history' = mood_history
       /\ history_exists' = history_exists]_vars

C11_Witness ==
  /\ op = "get_day_analysis"
  /\ last_day.valid /\ last_day.scored = 0
  /\ Len(last_day.result) >= 2
  /\ \E k \in DOMAIN lines : Strip(lines[k]) = ""
  /\ Len(mood_history) >= 2

\* C12: over appends and get_day_analysis calls, every non-blank line of the
\* log has exactly one entry in the analysis result and exactly one entry in
\* the mood history.
C12_EachLineOnce ==
  (op = "get_day_analysis" /\ log_exists) =>
    /\ Len(last_day.result) = NonBlankCount
    /\ Len(all_saved) = NonBlankCount
    /\ Len(mood_history) = NonBlankCount
\* C13: after clear_mood_history, get_mood_history returns an empty list and
\* a get_mood_statistics call that analyses no new line reports no sample.
C13_ClearIsFullWipe ==
  /\ [][op' = "clear_mood_history" => GetMoodHistory' = <<>>]_vars
  /\ [][(op = "clear_mood_history" /\ op' = "get_mood_statistics"
           /\ last_day'.scored = 0) =>
          /\ GetMoodHistory' = <<>>
          /\ \A j \in DOMAIN stats'.data : stats'.data[j].count = 0]_vars
\* The entries of the stored history stamped within a bucket's period.
EntriesOf(b) ==
  {k \in DOMAIN GetMoodHistory :
     b.from <= GetMoodHistory[k].timestamp /\ GetMoodHistory[k].timestamp < b.to}

\* C14: in the result of get_mood_statistics every bucket's count is the
\* number of history entries stamped in its period; a bucket without entries
\* has count 0 and value 0, a bucket whose only entry scores 0 has count 1
\* and value 0; the daily buckets are the 30 calendar days ending today.
C14_BucketCounts ==
  (op = "get_mood_statistics" /\ ~stats.fallback) =>
    /\ \A j \in DOMAIN stats.data :
         LET b == stats.data[j]
         IN  /\ b.count = Cardinality(EntriesOf(b))
             /\ (EntriesOf(b) = {} => b.count = 0 /\ b.value = Zero)
             /\ \A k \in EntriesOf(b) :
                  (EntriesOf(b) = {k} /\ GetMoodHistory[k].score = 0) =>
                    b.count = 1 /\ b.value = Zero
    /\ stats.period = "daily" =>
         /\ Len(stats.data) = DailyWindow
         /\ \A j \in DOMAIN stats.data :
              /\ stats.data[j].from = (DayOf(now) - (DailyWindow - j)) * TicksPerDay
              /\ stats.data[j].to = stats.data[j].from + TicksPerDay

C14_Witness ==
  /\ op = "get_mood_statistics" /\ stats.period = "daily"
  /\ Len(mood_history) = 2
  /\ stats.data[DailyWindow].count = 1
  /\ stats.data[DailyWindow].value = Zero
  /\ stats.data[DailyWindow - 1].count = 0
  /\ stats.data[DailyWindow - 1].value = Zero
  /\ \E k \in DOMAIN mood_history : mood_history[k].timestamp = now + 1

\* The calendar month after the month of label a.
NextMonthOf(a) ==
  IF a.month = 12 THEN [year |-> a.year + 1, month |-> 1]
  ELSE [year |-> a.year, month |-> a.month + 1]

\* C15: for a non-empty history the monthly result has exactly 12 buckets,
\* oldest first, for 12 consecutive calendar months ending with the current
\* month.
C15_TwelveConsecutiveMonths ==
  (op = "get_mood_statistics" /\ stats.period = "monthly"
     /\ GetMoodHistory # <<>>) =>
    /\ Len(stats.data) = MonthlyWindow
    /\ stats.data[MonthlyWindow].label =
         [year |-> DateOf(DayOf(now)).year, month |-> DateOf(DayOf(now)).month]
    /\ \A j \in 1..(MonthlyWindow - 1) :
         stats.data[j + 1].label = NextMonthOf(stats.data[j].label)

\* C16: for empty or whitespace-only text analyze_context returns the fixed
\* neutral result (adjusted score 0, not sarcastic, no mental-health concern,
\* category neutral, needs_attention false), analyze_sentiment returns 0.0 and
\* writes nothing to the concerning-analysis log, and the line is no breach.
C16_BlankIsNeutral ==
  sample.text \in {"", "  "} =>
    /\ concerning = <<>>
    /\ ~IsBreach(Strip(sample.text))
    /\ detail.called = "analyze_context" =>
         /\ detail.result.adjusted_compound = 0
         /\ ~detail.result.is_sarcastic
         /\ ~detail.result.mental_health_concern
         /\ detail.result.sentiment_category = "neutral"
         /\ ~detail.result.needs_attention
    /\ detail.called = "analyze_sentiment" =>
         /\ detail.returned = 0
         /\ ~detail.logged
         /\ ~(detail.returned < THRESHOLD)

\* A whitespace-only text with a strongly negative compound has been analysed.
C16_Witness ==
  /\ sample = [text |-> "  ", compound |-> -90]
  /\ detail.called = "analyze_sentiment"
  /\ op = "analyze_sentiment"

\* C17 as stated: for every text flagged sarcastic whose compound is greater
\* than 0.1, the adjusted score of analyze_context is at most 0 and equals
\* -abs(compound) * 0.7, whatever mental-health flags and concerning phrases
\* match.
C17_SarcasmFlipExact ==
  (/\ detail.called = "analyze_context"
   /\ ~(sample.text \in {"", "  "})
   /\ detail.result.is_sarcastic
   /\ sample.compound > 10) =>
    /\ detail.result.adjusted_compound <= 0
    /\ detail.result.adjusted_compound
         = -((sample.compound * 7) \div 10)

\* C17 amended: for every text flagged sarcastic whose compound is greater than
\* 0.1, the adjusted score of analyze_context is at most 0; it equals
\* -abs(compound) * 0.7 when neither a mental-health concern nor a concerning
\* phrase is found, the lower of that and -0.7 when a mental-health concern is
\* found, and otherwise the lower of that and -0.6 when a concerning phrase
\* matches.
C17_SarcasmFlipThenClamp ==
  (/\ detail.called = "analyze_context"
   /\ ~(sample.text \in {"", "  "})
   /\ detail.result.is_sarcastic
   /\ sample.compound > 10) =>
    LET flipped == -((sample.compound * 7) \div 10)
        clamp == IF detail.result.mental_health_concern THEN -70
                 ELSE IF Matches(Lower(sample.text)).phrase THEN -60
                 ELSE 0
    IN  /\ detail.result.adjusted_compound <= 0
        /\ detail.result.adjusted_compound
             = (IF flipped < clamp THEN flipped ELSE clamp)

\* A sarcastic text with a positive compound and a mental-health concern has
\* been analysed: the flipped score -0.35 is clamped to -0.7.
C17_Witness ==
  /\ detail.called = "analyze_context"
  /\ sample = [text |-> "so happy and thrilled, a wonderful day to kill time",
               compound |-> 50]
  /\ detail.result.is_sarcastic
  /\ detail.result.mental_health_concern
  /\ detail.result.adjusted_compound = -70

\* C18: for every text matching at least one pattern of mental_health_flags,
\* whatever its compound and whether or not it is flagged sarcastic, the
\* adjusted score is at most -0.7 (so at most -0.6), mental_health_concern and
\* needs_attention are true, and analyze_sentiment returns a score below
\* THRESHOLD, so that the line counts as a breach.
C18_CrisisClamp ==
  (/\ ~(sample.text \in {"", "  "})
   /\ Matches(Lower(sample.text)).flags >= 1) =>
    /\ detail.called = "analyze_context" =>
         /\ detail.result.adjusted_compound <= -70
         /\ detail.result.adjusted_compound <= -60
         /\ detail.result.mental_health_concern
         /\ detail.result.needs_attention
    /\ detail.called = "analyze_sentiment" =>
         /\ detail.returned <= -70
         /\ Strip(sample.text) # "" /\ detail.returned < THRESHOLD
         /\ detail.logged

\* A sarcastic text with the most positive compound that matches a crisis
\* pattern has been scored.
C18_Witness ==
  /\ detail.called = "analyze_sentiment"
  /\ sample = [text |-> "so happy and thrilled that i feel worthless and could die",
               compound |-> 100]
  /\ DetectSarcasm(sample.text).is_sarcastic
  /\ detail.returned = -70
  /\ Len(concerning) > 0

\* C19: the potential-sarcasm signal adds 0.4 to the sarcasm sum at most once,
\* however many patterns of potential_sarcasm match: a text whose only signals
\* are potential-sarcasm phrases and a contrastive conjunction has sum 0.4 and
\* is not flagged sarcastic.
C19_PotentialSarcasmOnce ==
  LET m == Matches(Lower(sample.text))
  IN  (/\ detail.called = "analyze_context"
       /\ ~(sample.text \in {"", "  "})
       /\ ~m.sarcasm_pattern /\ ~m.has_negative /\ ~m.negative_context
       /\ m.potential >= 1 /\ m.contrast) =>
        /\ detail.result.sarcasm_confidence = 40
        /\ ~detail.result.is_sarcastic

\* C20: appends to keystrokes.txt by the keylogger callback, the voice
\* transcription thread and the voice emotion thread are mutually exclusive:
\* in every interleaving the log consists of the appended lines, each at one
\* index in the order the appends completed, no line interleaved or merged with
\* another, and no line changing its index.
C20_AppendsExclusive ==
  wpc = [w \in Writers |-> "idle"] => lines = written

\* C21: main.cleanup leaves last_alert_line = 0, the keystroke log empty and
\* the alert log empty, leaves the mood history as it was, and a run that
\* follows another run at once changes none of the files and not the cache.
C21_CleanupResets ==
  /\ [][(op' = "reset" /\ ended'.handler = "cleanup") =>
          /\ GetAlertStatus' = 0
          /\ lines' = <<>>
          /\ alerts_log' = <<>>
          /\ mood_history' = mood_history
          /\ history_exists' = history_exists]_vars
  /\ [][(op' = "reset" /\ ended'.handler = "cleanup" /\ ended'.runs >= 2) =>
          UNCHANGED <<logv, statusv, alertsv, moodv>>]_vars

\* cleanup has run twice in a row on a session that has a mood history, an
\* alert status file and an alert log.
C21_Witness ==
  /\ op = "reset"
  /\ ended = [handler |-> "cleanup", runs |-> 2]
  /\ Len(mood_history) > 0
  /\ status_exists /\ alerts_exists /\ log_exists

\* C22: a failure inside scoring never propagates past analyze_sentiment, and
\* count_below_threshold and get_day_analysis complete for the remaining
\* lines: no call sees the scorer's exception, and each call covers every line
\* it was to scan.
C22_ScoringFailureContained ==
  fault.call # "none" => (~fault.propagated /\ fault.done = fault.due)

\* C23: after any sequence of analyze_sentiment calls the concerning-analysis
\* log holds at most 50 entries, each with a text preview of at most the first
\* 100 characters of its text plus an ellipsis; a call that logs puts its entry
\* last and keeps the entries before it in order, dropping the oldest beyond
\* 50, any other call leaves the log as it was; and the score returned is the
\* adjusted score whether or not the log was written.
C23_ConcerningLogCapped ==
  /\ [](/\ Len(concerning) <= 50
        /\ \A i \in 1..Len(concerning) : Len(concerning[i].text_sample) <= 103)
  /\ [][op' = "analyze_sentiment" =>
          IF detail'.logged
            THEN LET n == Len(concerning')
                     drop == Len(concerning) + 1 - n
                 IN  /\ n = (IF Len(concerning) < 50 THEN Len(concerning) + 1 ELSE 50)
                     /\ concerning'[n].timestamp = now
                     /\ concerning'[n].text_sample =
                          (IF Len(sample'.text) > 100
                             THEN SubSeq(sample'.text, 1, 100) \o "..."
                             ELSE sample'.text)
                     /\ \A i \in 1..(n - 1) : concerning'[i] = concerning[i + drop]
            ELSE concerning' = concerning]_vars
  /\ [](detail.called = "analyze_sentiment" =>
          detail.returned =
            (IF sample.text \in {"", "  "} THEN 0
             ELSE AnalyzeContext(sample.text, sample.compound).adjusted_compound))

\* A text of 101 characters has been logged into a full log: the oldest entry
\* is gone and the preview is 100 characters and the ellipsis.
C23_Witness ==
  /\ op = "analyze_sentiment" /\ detail.logged
  /\ Len(sample.text) = 101
  /\ Len(concerning) = 50
  /\ concerning[1].timestamp > 0
  /\ Len(concerning[50].text_sample) = 103
  /\ concerning[50].timestamp = now - 1

\* C24: the daily Gemini call counter never exceeds MAX_DAILY_API_CALLS, also
\* when generate_response runs in several worker threads at once, and the
\* first check on a later date resets it to 0 and records that date.
C24_DailyCounterBounded ==
  /\ [](daily_api_calls <= MAX_DAILY_API_CALLS)
  /\ [][(op' \in {"api_call", "template_response"}
           /\ (\A w \in Workers : aipc[w] = "idle")
           /\ DayOf(now) # last_api_reset) =>
          (daily_api_calls' = 0 /\ last_api_reset' = DayOf(now))]_vars

\* C25: every advance of last_alert_line is made by a check that called the
\* guardian notifier for the breach window it acknowledges.
C25_AdvanceOnlyAfterNotifier ==
  [][GetAlertStatus' > GetAlertStatus =>
       /\ last_check'.advanced
       /\ last_check'.latest_line = GetAlertStatus'
       /\ last_check'.notifier \in {"ok", "false"}]_vars

\* C26: in every reachable state last_alert_line is at most the number of
\* lines of the keystroke log, also inside on_close, main.cleanup and
\* clear_all_logs while the keylogger appends.
C26_PointerWithinLog ==
  GetAlertStatus <= Len(lines)

\* C27: get_mood_summary and get_mood_statistics leave the stored mood
\* history unchanged: neither appends an entry to mood_history.json.
C27_ReadsLeaveHistory ==
  [][op' \in {"get_mood_summary", "get_mood_statistics"} =>
       /\ mood_history' = mood_history
       /\ history_exists' = history_exists]_vars

\* C28: when check_and_add_guardian_alert has returned, the breaching lines
\* after last_alert_line in the log it scanned are at most ALERT_LIMIT, none
\* if it fired; the dashboard shows "Armed" only when lines were appended
\* after the check read the log.
C28_IdleAfterGuardianCheck ==
  /\ [](last_check.path = "guardian" =>
          LET scanned == SubSeq(lines, 1, last_check.latest_line)
              count == Len(NegLines(Slice(scanned, GetAlertStatus)))
          IN  /\ count <= ALERT_LIMIT
              /\ last_check.advanced => count = 0)
  /\ [][op' = "dashboard_armed" =>
          ~(last_check.path = "guardian" /\ last_check.late = 0)]_vars

C28_Witness ==
  /\ op = "dashboard_waiting"
  /\ last_check.path = "guardian" /\ last_check.advanced
  /\ last_check.count > ArmedAbove /\ last_check.late = 0

\* C29: with get_day_analysis running on the GUI thread and on a chat worker,
\* the cache and the mood history stay consistent: once both calls have
\* returned, each line of the log has at most one cache entry and one saved
\* entry, every entry saved is in the history, and the cache never loses an
\* entry.
C29_ConcurrentDayAnalysisConsistent ==
  /\ []((\A t \in DayThreads : day_call[t].at = "idle") =>
          /\ Len(analysis_cache) <= Len(ScoresOf(lines))
          /\ Len(all_saved) <= Len(ScoresOf(lines))
          /\ mood_history = all_saved)
  /\ [][Len(analysis_cache') >= Len(analysis_cache)]_vars

\* C30: the context correction never makes a text less negative than the
\* base scorer did: the adjusted score is at most the base compound, so a
\* text whose base compound is below THRESHOLD is still below it afterwards.
C30_CorrectionNeverRaises ==
  (detail.called = "analyze_context" /\ sample.text \notin {"", "  "}) =>
    /\ detail.result.adjusted_compound <= sample.compound
    /\ sample.compound < THRESHOLD =>
         detail.result.adjusted_compound < THRESHOLD

====
